---- MODULE Spec2Model ----
(***************************************************************************)
(* Model of the block-flow execution engine (internal/engine/engine.go):   *)
(* the FlowExecutor's flow table, the RuntimeFlow objects with their       *)
(* running flag, stop channel and wait group, the node worker goroutines   *)
(* and their input channels, and the lifecycle calls in progress.        *)
(***************************************************************************)
EXTENDS Integers, Sequences, FiniteSets, TLC

VARIABLES
    registry,   \* Registry.blocks: block type -> BlockInfo
    flows,      \* FlowExecutor.flows: flow id -> RuntimeFlow object (0: no entry)
    rt,         \* the heap of RuntimeFlow objects: [ID, Running, StopChan, wg, runs, Nodes]
    inputChan,  \* RuntimeNode.InputChan of every node of every RuntimeFlow
    workers,    \* the live runNode goroutines
    mutex,      \* FlowExecutor.mutex: "free" or "held" (by the StopFlow that waits)
    calls,      \* the API calls in progress: position, flow id, RuntimeFlow, caller
    crashed,    \* TRUE after a panic terminated the process
    exec,       \* history: the Execute invocation made in the last step
    dist,       \* history: the targets served and dropped by the distribution of the last step
    ret,        \* history: the call that returned in the last step, and its result
    prepared,   \* history: flow id -> a PrepareFlow of it has succeeded
    up,         \* history: flow id -> a Start of it succeeded and no Stop since
    stale,      \* history: the identifiers of the queued messages that were queued when a StopFlow returned
    vflow,      \* the flow definition handed to ValidateFlow
    vres,       \* what ValidateFlow returned for vflow ("none" before the call)
    vnamed,     \* what the error ValidateFlow returned names ("": nothing)
    msgs,       \* the Message objects a caller of the models package holds
    maps,       \* the Headers and Context map objects of these messages
    mlast       \* history: the Message operation of the last step

vars == <<registry, flows, rt, inputChan, workers, mutex, calls,
          crashed, exec, dist, ret, prepared, up, stale, vflow, vres, vnamed, msgs, maps,
          mlast>>

msgVars == <<msgs, maps, mlast>>

engineVars == <<registry, flows, rt, inputChan, workers, mutex, calls,
                crashed, exec, dist, ret, prepared, up, stale>>

----------------------------------------------------------------------------
(* Bounds of the model *)

\* RuntimeFlow objects reachable at the same time
MaxRF == 2
\* messages held by channels and workers at the same time: the ticker of an
\* Input node fires only below it
MaxInFlight == 1
\* nodes and connections of the flow definitions handed to ValidateFlow
MaxNodes == 2
MaxConns == 1
\* API calls in progress at the same time
MaxCalls == 2
\* capacity of a node's input channel (100 in the source, scaled down)
ChanCap == 2

\* Message objects a caller holds at the same time
MaxMsgs == 3
\* messages in existence below which the ticker fires in the fan-out flow
MaxBacklog == 3
\* Messages in existence below which the ticker fires in the shutdown flow
MaxRefill == 2
MaxWires == 3

FlowIds == {"f1", "f2"}

----------------------------------------------------------------------------
(* Block registry: internal/blocks/interface.go, builtin registration *)

InputGroup == "input"
PropagationGroup == "propagation"
ActionGroup == "action"

BlockInfo(type, group, ins, outs) ==
    [Type |-> type, BlockGroup |-> group, Inputs |-> ins, Outputs |-> outs]

\* RegisterBuiltinBlocks: the six factories registered at startup
RegisterBuiltinBlocks ==
    [t \in {"inject", "debug", "add", "subtract", "multiply", "divide"} |->
        CASE t = "inject" -> BlockInfo(t, InputGroup, 0, 1)
          [] t = "debug"  -> BlockInfo(t, ActionGroup, 1, 0)
          [] OTHER        -> BlockInfo(t, PropagationGroup, 1, 1)]

\* Registry.GetBlockInfoByType: fails exactly when no factory is registered
GetBlockInfoByTypeOk(reg, type) == type \in DOMAIN reg

\* Registry.CreateBlock: fails exactly when no factory is registered
CreateBlockOk(reg, type) == type \in DOMAIN reg

----------------------------------------------------------------------------
(* Flow definitions: models.Flow, models.Node, models.Connection *)

Node(id, type, ins, outs, props) ==
    [ID |-> id, Type |-> type, Inputs |-> ins, Outputs |-> outs, Properties |-> props]

Connection(src, sp, tgt, tp) ==
    [Source |-> src, SourcePort |-> sp, Target |-> tgt, TargetPort |-> tp]

Flow(id, nodes, conns) == [ID |-> id, Nodes |-> nodes, Connections |-> conns]

Num(v) == [t |-> "number", v |-> v]
Str(s) == [t |-> "string", v |-> s]

NoProps == [k \in {} |-> Num(0)]

\* The flows held by the storage collaborator, by flow id:
\*   f1: inject("5") -> debug
\*   f2: a node of an unregistered block type
LoadFlow(f) ==
    IF f = "f1"
    THEN Flow(f, << Node("n1", "inject", 0, 1, [payload |-> Str("5")]),
                    Node("n2", "debug", 1, 0, NoProps) >>,
                 << Connection("n1", 0, "n2", 0) >>)
    ELSE Flow(f, << Node("n1", "unknown-type", 1, 1, NoProps) >>, << >>)

NodeIdsOf(flow) == {flow.Nodes[i].ID : i \in 1..Len(flow.Nodes)}

\* Flow.Validate (models): duplicate node ids, dangling connection ends
FlowValidateOk(flow) ==
    /\ \A i, j \in 1..Len(flow.Nodes) :
          flow.Nodes[i].ID = flow.Nodes[j].ID => i = j
    /\ \A k \in 1..Len(flow.Connections) :
          /\ flow.Connections[k].Source \in NodeIdsOf(flow)
          /\ flow.Connections[k].Target \in NodeIdsOf(flow)

----------------------------------------------------------------------------
(* FlowExecutor.ValidateFlow *)

\* nodeMap[node.ID] = &node over flow.Nodes in order: a later node with the
\* same id replaces an earlier one
NodeMap(flow) ==
    [id \in NodeIdsOf(flow) |->
        LET last == CHOOSE i \in 1..Len(flow.Nodes) :
                       /\ flow.Nodes[i].ID = id
                       /\ \A j \in 1..Len(flow.Nodes) :
                             flow.Nodes[j].ID = id => j <= i
        IN  flow.Nodes[last]]

\* the checks of one connection with the source port compared by > where the
\* code compares by >=
ConnErrorOffByOne(nodeMap, conn) ==
    IF conn.Source \notin DOMAIN nodeMap THEN "non-existent source node"
    ELSE IF conn.Target \notin DOMAIN nodeMap THEN "non-existent target node"
    ELSE IF conn.SourcePort > nodeMap[conn.Source].Outputs THEN "invalid source port"
    ELSE IF conn.TargetPort >= nodeMap[conn.Target].Inputs THEN "invalid target port"
    ELSE "ok"

\* the checks of one connection, in the order of the code
ConnError(nodeMap, conn) ==
    IF conn.Source \notin DOMAIN nodeMap THEN "non-existent source node"
    ELSE IF conn.Target \notin DOMAIN nodeMap THEN "non-existent target node"
    ELSE IF conn.SourcePort >= nodeMap[conn.Source].Outputs THEN "invalid source port"
    ELSE IF conn.TargetPort >= nodeMap[conn.Target].Inputs THEN "invalid target port"
    ELSE "ok"

\* the error returned, or "ok"; the first failing check in code order decides
ValidateFlow(reg, flow) ==
    IF Len(flow.Nodes) = 0 THEN "no blocks"
    ELSE IF \E i \in 1..Len(flow.Nodes) : ~GetBlockInfoByTypeOk(reg, flow.Nodes[i].Type)
         THEN "unknown block type"
    ELSE LET nodeMap == NodeMap(flow)
             bad == {k \in 1..Len(flow.Connections) :
                        ConnError(nodeMap, flow.Connections[k]) # "ok"}
         IN  IF bad = {} THEN "ok"
             ELSE LET first == CHOOSE k \in bad : \A j \in bad : k <= j
                  IN  ConnError(nodeMap, flow.Connections[first])

\* what the error of ValidateFlow names: the block type of the first node
\* whose type is not registered, the missing node id of the first failing
\* connection, or the node whose port count the connection exceeds
ValidateFlowNamed(reg, flow) ==
    IF Len(flow.Nodes) = 0 THEN ""
    ELSE LET unknown == {i \in 1..Len(flow.Nodes) :
                            ~GetBlockInfoByTypeOk(reg, flow.Nodes[i].Type)}
         IN  IF unknown # {}
             THEN flow.Nodes[CHOOSE i \in unknown : \A j \in unknown : i <= j].Type
             ELSE LET nodeMap == NodeMap(flow)
                      bad == {k \in 1..Len(flow.Connections) :
                                 ConnError(nodeMap, flow.Connections[k]) # "ok"}
                  IN  IF bad = {} THEN ""
                      ELSE LET conn == flow.Connections[
                                          CHOOSE k \in bad : \A j \in bad : k <= j]
                               e == ConnError(nodeMap, conn)
                           IN  IF e \in {"non-existent target node", "invalid target port"}
                               THEN conn.Target ELSE conn.Source

----------------------------------------------------------------------------
(* Messages: internal/models/message.go *)

\* the nil *Message (Input blocks get no input message)
NilMsg == [id |-> 0, payload |-> Num(0)]

\* generateID: 16 random bytes in hex; an identifier that no message in
\* existence carries (used: the identifiers of the messages in existence)
generateID(used) ==
    CHOOSE n \in 1..(Cardinality(used) + 1) :
        n \notin used /\ \A m \in 1..(n - 1) : m \in used

\* NewMessage(payload)
NewMessage(used, payload) == [id |-> generateID(used), payload |-> payload]

\* a copy that keeps the identifier of the original
CloneSameID(used, m) == m

\* a Clone that yields no message
CloneNil(used, m) == NilMsg

\* Message.Clone: a new identifier, the same payload
Clone(used, m) == [id |-> generateID(used \cup {m.id}), payload |-> m.payload]

\* a free slot of the Message objects, and of the map objects
NoMsg == [ID |-> 0, Payload |-> Num(0), Headers |-> 0, Context |-> 0]

\* make(map[...]...): a map with no entry
EmptyEntries == [k \in {} |-> ""]

NoMap == [live |-> FALSE, entries |-> EmptyEntries]

\* mlast after a step that was no Message operation
NoOp == [op |-> "", on |-> 0, new |-> 0]

----------------------------------------------------------------------------
(* Built-in blocks: Execute *)

\* strconv.ParseFloat on the payload strings the model uses
ParseFloat(s) ==
    CASE s = "5" -> [ok |-> TRUE, v |-> 5]
      [] s = "0" -> [ok |-> TRUE, v |-> 0]
      [] OTHER   -> [ok |-> FALSE, v |-> 0]

\* extractNumber: fails on anything that is not a number
extractNumberOk(props, key) == key \in DOMAIN props /\ props[key].t = "number"

\* Block.Validate(properties) of the built-in blocks: TRUE when it returns nil
BlockValidateOk(type, props) ==
    CASE type = "inject" -> "payload" \in DOMAIN props
      [] type \in {"add", "subtract", "multiply"} -> "value" \in DOMAIN props
      [] type = "divide" -> extractNumberOk(props, "value") /\ props.value.v # 0
      [] OTHER -> TRUE

\* a math block that adds whatever its type is
ArithSum(type, a, b) == a + b

\* result := inputNum (+ | - | * | /) value of the four math blocks
Arith(type, a, b) ==
    CASE type = "add" -> a + b
      [] type = "subtract" -> a - b
      [] type = "multiply" -> a * b
      [] OTHER -> a \div b

\* Block.Execute(ctx, properties): [err, out].  inject builds one NewMessage,
\* the math blocks return one changed clone of the input, debug returns an
\* empty list.
Execute(type, props, msg, used) ==
    CASE type = "inject" ->
           LET s == IF "payload" \in DOMAIN props /\ props.payload.t = "string"
                    THEN props.payload.v ELSE ""
               f == ParseFloat(s)
           IN  IF f.ok THEN [err |-> FALSE, out |-> << NewMessage(used, Num(f.v)) >>]
               ELSE [err |-> TRUE, out |-> << >>]
      [] type \in {"add", "subtract", "multiply", "divide"} ->
           IF msg = NilMsg \/ msg.payload.t # "number" \/ ~extractNumberOk(props, "value")
           THEN [err |-> TRUE, out |-> << >>]
           ELSE IF type = "divide" /\ props.value.v = 0
           THEN [err |-> TRUE, out |-> << >>]
           ELSE LET r == Arith(type, msg.payload.v, props.value.v)
                IN  [err |-> FALSE, out |-> << [Clone(used, msg) EXCEPT !.payload = Num(r)] >>]
      [] OTHER ->
           IF msg = NilMsg THEN [err |-> TRUE, out |-> << >>]
           ELSE [err |-> FALSE, out |-> << >>]

----------------------------------------------------------------------------
(* FlowExecutor.PrepareFlow: the runtime structures *)

\* the value of a free slot of the heap of RuntimeFlow objects
NoRF == [ID |-> "", Running |-> FALSE, StopChan |-> "open", wg |-> 0, runs |-> 0,
         Nodes |-> << >>]

\* an outbound list in the reverse of the declaration order
OutputConnectionsReversed(flow, id) ==
    LET src == SelectSeq(flow.Connections, LAMBDA c : c.Source = id)
    IN  [k \in 1..Len(src) |-> src[Len(src) + 1 - k].Target]

\* the targets of the connections whose source is the node, in declaration order
OutputConnections(flow, id) ==
    LET src == SelectSeq(flow.Connections, LAMBDA c : c.Source = id)
    IN  [k \in 1..Len(src) |-> src[k].Target]

\* runtimeFlow.Nodes[node.ID] = runtimeNode for every node, in order
RuntimeNodes(flow) ==
    LET nodeMap == NodeMap(flow)
    IN  [id \in NodeIdsOf(flow) |->
            [Type |-> nodeMap[id].Type,
             Properties |-> nodeMap[id].Properties,
             OutputConnections |-> OutputConnections(flow, id)]]

\* the RuntimeFlow PrepareFlow returns for a flow that passed ValidateFlow
PreparedFlow(flow) ==
    [ID |-> flow.ID, Running |-> FALSE, StopChan |-> "open", wg |-> 0, runs |-> 0,
     Nodes |-> RuntimeNodes(flow)]

\* a PrepareFlow that does not call ValidateFlow first
PrepareFlowErrorUnvalidated(reg, flow) ==
    IF \E i \in 1..Len(flow.Nodes) : ~CreateBlockOk(reg, flow.Nodes[i].Type)
    THEN "failed to create block"
    ELSE "ok"

\* PrepareFlow fails when validation or a block instantiation fails
PrepareFlowError(reg, flow) ==
    IF ValidateFlow(reg, flow) # "ok" THEN "flow validation failed"
    ELSE IF \E i \in 1..Len(flow.Nodes) : ~CreateBlockOk(reg, flow.Nodes[i].Type)
    THEN "failed to create block"
    ELSE "ok"

----------------------------------------------------------------------------
(* Initial state: NewFlowExecutor, builtin blocks registered, no call yet *)

\* a thread is free to enter a new call
CanCall == Cardinality(calls) < MaxCalls

\* the goroutines of callers the model tells apart (by = 0: any other caller)
Callers == 1..MaxCalls

\* a call in progress moves on to position pc
Moved(k, pc) == (calls \ {k}) \cup {[k EXCEPT !.pc = pc]}

\* exec after a step in which no worker called Execute
NoExec == [rf |-> 0, node |-> "", run |-> 0, msg |-> NilMsg, err |-> FALSE, Context |-> "",
           State |-> 0]

\* dist after a step in which no worker distributed messages
NoDist == [rf |-> 0, node |-> "", sent |-> << >>, dropped |-> << >>]

\* ret after a step in which no call returned
NoRet == [op |-> "", flow |-> "", err |-> "", val |-> FALSE, obj |-> NoRF]

\* ret after a step in which the call op(f) returned: err is the error ("ok":
\* none), val the boolean result, obj the object result (NoRF: none)
Return(op, f, err, val, obj) ==
    [op |-> op, flow |-> f, err |-> err, val |-> val, obj |-> obj]

\* the identifiers of the messages that wait in the channels ch
QueuedIDs(ch) ==
    UNION {UNION {{ch[r][n][i].id : i \in DOMAIN ch[r][n]} : n \in DOMAIN ch[r]} :
              r \in DOMAIN ch}

\* stale after a step that leaves the channels as ch: a message that left its
\* queue is forgotten
StillQueued(st, ch) == st \cap QueuedIDs(ch)

EngineInit ==
    /\ registry = RegisterBuiltinBlocks
    /\ flows = [f \in FlowIds |-> 0]
    /\ rt = [r \in 1..MaxRF |-> NoRF]
    /\ inputChan = [r \in 1..MaxRF |-> << >>]
    /\ workers = {}
    /\ mutex = "free"
    /\ calls = {}
    /\ crashed = FALSE
    /\ exec = NoExec
    /\ dist = NoDist
    /\ ret = NoRet
    /\ prepared = [f \in FlowIds |-> FALSE]
    /\ up = [f \in FlowIds |-> FALSE]
    /\ stale = {}

\* no Message object exists yet
MessagesInit ==
    /\ msgs = [h \in 1..MaxMsgs |-> NoMsg]
    /\ maps = [m \in 1..(2 * MaxMsgs) |-> NoMap]
    /\ mlast = NoOp

Init ==
    /\ EngineInit
    /\ vflow = Flow("", << >>, << >>)
    /\ vres = "none"
    /\ vnamed = ""
    /\ MessagesInit

----------------------------------------------------------------------------
(* FlowExecutor.PrepareFlow, PrepareAndStartFlow, Engine.StartFlow and     *)
(* Engine.TriggerFlow                                                      *)

\* A RuntimeFlow object is reachable from the flow table, from a call in
\* progress or from a worker goroutine; any other is garbage.
Reachable(r, fl, cs, ws) ==
    \/ \E f \in FlowIds : fl[f] = r
    \/ \E k \in cs : k.rf = r
    \/ \E w \in ws : w.rf = r

\* the heap and the channels after the garbage is collected
CollectRt(h, fl, cs, ws) ==
    [r \in 1..MaxRF |-> IF Reachable(r, fl, cs, ws) THEN h[r] ELSE NoRF]

CollectChans(ch, fl, cs, ws) ==
    [r \in 1..MaxRF |-> IF Reachable(r, fl, cs, ws) THEN ch[r] ELSE << >>]

FreeSlots == {r \in 1..MaxRF : rt[r] = NoRF}

\* runtimeFlow := &RuntimeFlow{...}: the slot of the new object
NewSlot == CHOOSE r \in FreeSlots : \A q \in FreeSlots : r <= q

\* PrepareFlow(flow) as called for operation op: on an error op returns it.
\* Otherwise a new RuntimeFlow is built.  PrepareFlow returns it to its
\* caller, which is all that refers to it (ret.obj); PrepareAndStartFlow
\* keeps it for its next step.  No lock is taken.
PrepareStep(op, flow, err) ==
    /\ ~crashed
    /\ CanCall
    /\ IF err # "ok"
       THEN /\ ret' = Return(op, flow.ID, err, FALSE, NoRF)
            /\ UNCHANGED <<rt, inputChan, stale, calls>>
       ELSE IF op = "PrepareFlow"
       THEN /\ ret' = Return(op, flow.ID, "ok", FALSE, PreparedFlow(flow))
            /\ UNCHANGED <<rt, inputChan, stale, calls>>
       ELSE /\ FreeSlots # {}
            /\ rt' = [rt EXCEPT ![NewSlot] = PreparedFlow(flow)]
            /\ inputChan' = [inputChan EXCEPT ![NewSlot] =
                                [n \in NodeIdsOf(flow) |-> << >>]]
            /\ calls' = calls \cup
                           {[pc |-> "register", flow |-> flow.ID, rf |-> NewSlot, by |-> 0]}
            /\ ret' = NoRet
            /\ UNCHANGED stale
    /\ prepared' = IF err = "ok" THEN [prepared EXCEPT ![flow.ID] = TRUE] ELSE prepared
    /\ exec' = NoExec
    /\ dist' = NoDist
    /\ UNCHANGED <<registry, flows, workers, mutex, crashed, up, vflow, vres, vnamed, msgVars>>

\* FlowExecutor.PrepareFlow called directly
PrepareFlow(f) ==
    PrepareStep("PrepareFlow", LoadFlow(f), PrepareFlowError(registry, LoadFlow(f)))

\* FlowExecutor.PrepareAndStartFlow, up to the return of PrepareFlow
PrepareAndStartFlow(f) ==
    PrepareStep("PrepareAndStartFlow", LoadFlow(f),
                PrepareFlowError(registry, LoadFlow(f)))

\* Engine.StartFlow: load the flow, Flow.Validate, then PrepareAndStartFlow
EngineStartFlow(f) ==
    PrepareStep("Engine.StartFlow", LoadFlow(f),
                IF ~FlowValidateOk(LoadFlow(f)) THEN "flow validation failed"
                ELSE PrepareFlowError(registry, LoadFlow(f)))

\* Engine.TriggerFlow: return e.StartFlow(ctx, flowID)
EngineTriggerFlow(f) ==
    PrepareStep("Engine.TriggerFlow", LoadFlow(f),
                IF ~FlowValidateOk(LoadFlow(f)) THEN "flow validation failed"
                ELSE PrepareFlowError(registry, LoadFlow(f)))

\* a Lock that does not wait for the holder of the mutex
LockIgnored(m) == TRUE

\* fe.mutex.Lock() returns when no call holds fe.mutex
LockFree(m) == m = "free"

\* an RLock that does not wait for a writer
RLockIgnored(m) == TRUE

\* fe.mutex.RLock() returns when no writer holds fe.mutex (the model has no
\* reader that stays in its call over several steps)
RLockFree(m) == m = "free"

\* PrepareAndStartFlow: fe.flows[flow.ID] = runtimeFlow, under the lock
RegisterFlow(k) ==
    /\ ~crashed
    /\ k.pc = "register"
    /\ LockFree(mutex)
    /\ flows' = [flows EXCEPT ![k.flow] = k.rf]
    /\ calls' = Moved(k, "start")
    /\ rt' = CollectRt(rt, flows', calls', workers)
    /\ inputChan' = CollectChans(inputChan, flows', calls', workers)
    /\ stale' = StillQueued(stale, inputChan')
    /\ ret' = NoRet
    /\ exec' = NoExec
    /\ dist' = NoDist
    /\ UNCHANGED <<registry, workers, mutex, crashed, prepared, up, vflow, vres, vnamed, msgVars>>

----------------------------------------------------------------------------
(* FlowExecutor.StartFlow *)

\* a start loop that leaves one node of runtimeFlow.Nodes without a goroutine
SpawnWorkersShort(r, run) ==
    {[rf |-> r, node |-> n, run |-> run, pc |-> "select", out |-> << >>] :
        n \in DOMAIN rt[r].Nodes \ {CHOOSE m \in DOMAIN rt[r].Nodes : TRUE}}

\* go fe.runNode(node, runtimeFlow) for every node of runtimeFlow.Nodes
SpawnWorkers(r, run) ==
    {[rf |-> r, node |-> n, run |-> run, pc |-> "select", out |-> << >>] :
        n \in DOMAIN rt[r].Nodes}

\* WaitGroup.Add(1) for every node started
WaitGroupAdds(r) == Cardinality(DOMAIN rt[r].Nodes)

\* a StartFlow without the check of runtimeFlow.Running
AlreadyRunningUnchecked(r) == FALSE

\* if runtimeFlow.Running { return "already running" }
AlreadyRunning(r) == rt[r].Running

\* the body of StartFlow under the lock, for the call op(f) whose caller
\* goes on with the calls cs in progress
StartFlowBody(op, f, cs) ==
    /\ LockFree(mutex)
    /\ calls' = cs
    /\ LET r == flows[f]
       IN  IF r = 0
           THEN /\ ret' = Return(op, f, "not prepared", FALSE, NoRF)
                /\ rt' = CollectRt(rt, flows, cs, workers)
                /\ UNCHANGED <<workers, up>>
           ELSE IF AlreadyRunning(r)
           THEN /\ ret' = Return(op, f, "already running", FALSE, NoRF)
                /\ rt' = CollectRt(rt, flows, cs, workers)
                /\ UNCHANGED <<workers, up>>
           ELSE /\ workers' = workers \cup SpawnWorkers(r, rt[r].runs + 1)
                /\ rt' = CollectRt([rt EXCEPT ![r].Running = TRUE,
                                              ![r].wg = @ + WaitGroupAdds(r),
                                              ![r].runs = @ + 1],
                                   flows, cs, workers')
                /\ up' = [up EXCEPT ![f] = TRUE]
                /\ ret' = Return(op, f, "ok", FALSE, NoRF)
    /\ inputChan' = CollectChans(inputChan, flows, cs, workers')
    /\ stale' = StillQueued(stale, inputChan')
    /\ UNCHANGED <<registry, flows, mutex, crashed, prepared, vflow, vres, vnamed, msgVars>>
    /\ exec' = NoExec
    /\ dist' = NoDist

\* StartFlow called directly
StartFlow(f) ==
    /\ ~crashed
    /\ CanCall
    /\ StartFlowBody("StartFlow", f, calls)

\* the StartFlow(flow.ID) that ends PrepareAndStartFlow
StartPrepared(k) ==
    /\ ~crashed
    /\ k.pc = "start"
    /\ StartFlowBody("PrepareAndStartFlow", k.flow, calls \ {k})

----------------------------------------------------------------------------
(* FlowExecutor.StopFlow *)

\* a StopFlow that checks only that the flow table has the id
NotRunningFlagIgnored(r) == r = 0

\* runtimeFlow, exists := fe.flows[flowID]; !exists, or !runtimeFlow.Running
NotRunning(r) == r = 0 \/ ~rt[r].Running

\* StopFlow up to WaitGroup.Wait: the checks and close(runtimeFlow.StopChan).
\* Closing a closed channel panics.
StopFlowBegin(f) ==
    /\ ~crashed
    /\ CanCall
    /\ LockFree(mutex)
    /\ LET r == flows[f]
       IN  IF NotRunning(r)
           THEN /\ ret' = Return("StopFlow", f, "not running", FALSE, NoRF)
                /\ UNCHANGED <<rt, mutex, calls, crashed>>
           ELSE IF rt[r].StopChan = "closed"
           THEN /\ crashed' = TRUE
                /\ ret' = NoRet
                /\ UNCHANGED <<rt, mutex, calls>>
           ELSE /\ rt' = [rt EXCEPT ![r].StopChan = "closed"]
                /\ mutex' = "held"
                /\ calls' = calls \cup {[pc |-> "stopWait", flow |-> f, rf |-> r, by |-> 0]}
                /\ ret' = NoRet
                /\ UNCHANGED crashed
    /\ UNCHANGED <<registry, flows, inputChan, stale, workers, prepared, up,
                   vflow, vres, vnamed, msgVars>>
    /\ exec' = NoExec
    /\ dist' = NoDist

\* a StopFlow that does not wait for the wait group
WaitGroupWaitSkipped(r) == TRUE

\* WaitGroup.Wait returns when the counter is zero
WaitGroupWaitDone(r) == rt[r].wg = 0

\* StopFlow after WaitGroup.Wait: Running = false, unlock, return
StopFlowEnd(k) ==
    /\ ~crashed
    /\ k.pc = "stopWait"
    /\ WaitGroupWaitDone(k.rf)
    /\ rt' = [rt EXCEPT ![k.rf].Running = FALSE]
    /\ mutex' = "free"
    /\ ret' = Return("StopFlow", k.flow, "ok", FALSE, NoRF)
    /\ calls' = calls \ {k}
    /\ up' = [up EXCEPT ![k.flow] = FALSE]
    /\ stale' = stale \cup QueuedIDs(<< inputChan[k.rf] >>)
    /\ UNCHANGED <<registry, flows, inputChan, workers, crashed, prepared, vflow, vres, vnamed, msgVars>>
    /\ exec' = NoExec
    /\ dist' = NoDist

----------------------------------------------------------------------------
(* FlowExecutor.GetFlowStatus *)

GetFlowStatus(f) ==
    /\ ~crashed
    /\ CanCall
    /\ RLockFree(mutex)
    /\ ret' = IF flows[f] = 0
              THEN Return("GetFlowStatus", f, "not found", FALSE, NoRF)
              ELSE Return("GetFlowStatus", f, "ok", rt[flows[f]].Running, NoRF)
    /\ UNCHANGED <<registry, flows, rt, inputChan, stale, workers, mutex, calls, crashed,
                   prepared, up, vflow, vres, vnamed, msgVars>>
    /\ exec' = NoExec
    /\ dist' = NoDist

----------------------------------------------------------------------------
(* FlowExecutor.distributeMessage *)

\* a send that puts the clone in the channel whether it has room or not
DistributeOneUnbounded(d, target, msg) ==
    IF target \notin DOMAIN d.chans THEN d
    ELSE LET clonedMsg == Clone(d.used, msg)
         IN  [d EXCEPT !.chans[target] = Append(@, clonedMsg),
                       !.used = @ \cup {clonedMsg.id},
                       !.sent = Append(@, [target |-> target, msg |-> clonedMsg])]

\* a send that puts the clone in front of the messages that wait
DistributeOnePrepend(d, target, msg) ==
    IF target \notin DOMAIN d.chans THEN d
    ELSE LET clonedMsg == Clone(d.used, msg)
         IN  IF Len(d.chans[target]) < ChanCap
             THEN [d EXCEPT !.chans[target] = << clonedMsg >> \o @,
                            !.used = @ \cup {clonedMsg.id},
                            !.sent = Append(@, [target |-> target, msg |-> clonedMsg])]
             ELSE [d EXCEPT !.dropped = Append(@, target)]

\* One target: clone the message, then a non-blocking send that drops the
\* clone when the target's channel is full.  d = [chans, used, sent, dropped]:
\* the channels of the flow, the identifiers of the messages in existence,
\* the clones sent so far and the targets whose clone was dropped.
DistributeOne(d, target, msg) ==
    IF target \notin DOMAIN d.chans THEN d
    ELSE LET clonedMsg == Clone(d.used, msg)
         IN  IF Len(d.chans[target]) < ChanCap
             THEN [d EXCEPT !.chans[target] = Append(@, clonedMsg),
                            !.used = @ \cup {clonedMsg.id},
                            !.sent = Append(@, [target |-> target, msg |-> clonedMsg])]
             ELSE [d EXCEPT !.dropped = Append(@, target)]

RECURSIVE distributeMessageStopAtFull(_, _, _)
\* a loop over the targets that ends at the first target whose channel is full
distributeMessageStopAtFull(d, targets, msg) ==
    IF targets = << >> THEN d
    ELSE IF Head(targets) \in DOMAIN d.chans /\ Len(d.chans[Head(targets)]) >= ChanCap
    THEN [d EXCEPT !.dropped = Append(@, Head(targets))]
    ELSE distributeMessageStopAtFull(DistributeOne(d, Head(targets), msg),
                                     Tail(targets), msg)

RECURSIVE distributeMessage(_, _, _)
\* for _, targetNodeID := range sourceNode.OutputConnections
distributeMessage(d, targets, msg) ==
    IF targets = << >> THEN d
    ELSE distributeMessage(DistributeOne(d, Head(targets), msg), Tail(targets), msg)

RECURSIVE DistributeAll(_, _, _)
\* for _, msg := range messages { fe.distributeMessage(node, msg, flow) }
DistributeAll(d, targets, messages) ==
    IF messages = << >> THEN d
    ELSE DistributeAll(distributeMessage(d, targets, Head(messages)), targets,
                       Tail(messages))

----------------------------------------------------------------------------
(* FlowExecutor.runNode and the three worker loops *)

RtNode(w) == rt[w.rf].Nodes[w.node]

\* runNode: the block group of the node's type, read from the registry (every
\* type of a prepared flow is registered, and the registry has no removal)
BlockGroupOf(w) == registry[RtNode(w).Type].BlockGroup

SeqRange(q) == {q[i] : i \in 1..Len(q)}

ChanKeys == UNION {{<<r, n>> : n \in DOMAIN inputChan[r]} : r \in 1..MaxRF}

\* the messages in existence: queued in a channel or held by a worker
QueuedMsgs ==
    UNION {SeqRange(inputChan[r][n]) : <<r, n>> \in ChanKeys}

HeldMsgs == UNION {SeqRange(w.out) : w \in workers}

LiveIDs == {m.id : m \in QueuedMsgs \cup HeldMsgs}

InFlight == Cardinality(LiveIDs)

\* ctx := &models.BlockExecutionContext{NodeID: ..., Logger: ..., Message: msg}:
\* the fields the literal does not name are zero, so Context is the nil
\* context.Context, FlowID the empty string and State the nil map (0); a new
\* context is built for every invocation
BlockExecutionContext(w, msg) ==
    [Context |-> "nil", NodeID |-> w.node, FlowID |-> "", Message |-> msg, State |-> 0]

\* ctx.SetState(key, value) is ctx.State[key] = value: an assignment to an
\* entry of a nil map panics
SetStatePanics(state) == state = 0

\* ctx.GetState(key) on the nil map: the zero value and exists = false
GetState(state, key) ==
    IF state = 0 THEN [value |-> "nil", exists |-> FALSE]
    ELSE [value |-> IF key \in DOMAIN maps[state].entries
                    THEN maps[state].entries[key] ELSE "nil",
          exists |-> key \in DOMAIN maps[state].entries]

ExecEntry(w, msg, res) ==
    [rf |-> w.rf, node |-> w.node, run |-> w.run, msg |-> msg, err |-> res.err,
     Context |-> BlockExecutionContext(w, msg).Context,
     State |-> BlockExecutionContext(w, msg).State]

\* a worker loop whose select has no case for the stop channel
StopChanNeverReady(r) == FALSE

\* case <-flow.StopChan is ready
StopChanReady(r) == rt[r].StopChan = "closed"

\* case <-flow.StopChan: return; the deferred WaitGroup.Done ends the goroutine
WorkerExit(w) ==
    /\ ~crashed
    /\ w.pc = "select"
    /\ StopChanReady(w.rf)
    /\ workers' = workers \ {w}
    /\ rt' = CollectRt([rt EXCEPT ![w.rf].wg = @ - 1], flows, calls, workers')
    /\ inputChan' = CollectChans(inputChan, flows, calls, workers')
    /\ stale' = StillQueued(stale, inputChan')
    /\ ret' = NoRet
    /\ exec' = NoExec
    /\ dist' = NoDist
    /\ UNCHANGED <<registry, flows, mutex, calls, crashed, prepared, up, vflow, vres, vnamed, msgVars>>

\* an Input loop without the `continue` after a failed Execute
InputForwardsAlways(res) == TRUE

\* runInputNode: if err != nil { log; continue }, else the distribution loop
InputForwards(res) == ~res.err

\* runInputNode, case <-ticker.C: Execute with no input message; the ticker
\* fires while fewer than bound messages are in existence
TickStep(w, bound) ==
    /\ ~crashed
    /\ w.pc = "select"
    /\ BlockGroupOf(w) = InputGroup
    /\ InFlight < bound
    /\ dist' = NoDist
    /\ LET res == Execute(RtNode(w).Type, RtNode(w).Properties, NilMsg, LiveIDs)
       IN  /\ exec' = ExecEntry(w, NilMsg, res)
           /\ workers' = IF ~InputForwards(res) THEN workers
                         ELSE (workers \ {w}) \cup
                              {[w EXCEPT !.pc = "dist", !.out = res.out]}
    /\ ret' = NoRet
    /\ UNCHANGED <<registry, flows, rt, inputChan, stale, mutex, calls, crashed,
                   prepared, up, vflow, vres, vnamed, msgVars>>

WorkerTick(w) == TickStep(w, MaxInFlight)

\* a loop without the `continue` after a failed Execute
DistributesOutputOnError(w, res) == BlockGroupOf(w) # ActionGroup

\* a loop that hands the messages Execute returned to distributeMessage for
\* every block group
DistributesOutputAlways(w, res) == ~res.err

\* runPropagationNode distributes what Execute returned without error;
\* runActionNode drops it (_, err := node.Block.Execute)
DistributesOutput(w, res) == ~res.err /\ BlockGroupOf(w) # ActionGroup

\* runPropagationNode / runActionNode, case msg := <-node.InputChan: Execute
\* with the message; an Action node drops whatever Execute returned
WorkerReceive(w) ==
    /\ ~crashed
    /\ w.pc = "select"
    /\ BlockGroupOf(w) \in {PropagationGroup, ActionGroup}
    /\ inputChan[w.rf][w.node] # << >>
    /\ LET msg == Head(inputChan[w.rf][w.node])
           res == Execute(RtNode(w).Type, RtNode(w).Properties, msg, LiveIDs)
       IN  /\ inputChan' = [inputChan EXCEPT ![w.rf][w.node] = Tail(@)]
           /\ stale' = StillQueued(stale, inputChan')
           /\ exec' = ExecEntry(w, msg, res)
           /\ workers' = IF ~DistributesOutput(w, res) THEN workers
                         ELSE (workers \ {w}) \cup
                              {[w EXCEPT !.pc = "dist", !.out = res.out]}
    /\ ret' = NoRet
    /\ dist' = NoDist
    /\ UNCHANGED <<registry, flows, rt, mutex, calls, crashed, prepared, up,
                   vflow, vres, vnamed, msgVars>>

\* a plain send targetNode.InputChan <- clonedMsg, which waits for room
SendReady(chans, target) == target \in DOMAIN chans => Len(chans[target]) < ChanCap

\* select { case targetNode.InputChan <- clonedMsg: ...; default: ... }: with
\* its default case the select is ready whatever the channel holds
SelectReady(chans, target) == TRUE

\* the loop over the returned messages that calls distributeMessage
WorkerDistribute(w) ==
    /\ ~crashed
    /\ w.pc = "dist"
    /\ \A i \in DOMAIN RtNode(w).OutputConnections :
          SelectReady(inputChan[w.rf], RtNode(w).OutputConnections[i])
    /\ LET d == DistributeAll([chans |-> inputChan[w.rf], used |-> LiveIDs,
                               sent |-> << >>, dropped |-> << >>],
                              RtNode(w).OutputConnections, w.out)
       IN  /\ inputChan' = [inputChan EXCEPT ![w.rf] = d.chans]
           /\ stale' = StillQueued(stale, inputChan')
           /\ dist' = [rf |-> w.rf, node |-> w.node, sent |-> d.sent,
                       dropped |-> d.dropped]
    /\ workers' = (workers \ {w}) \cup {[w EXCEPT !.pc = "select", !.out = << >>]}
    /\ ret' = NoRet
    /\ exec' = NoExec
    /\ UNCHANGED <<registry, flows, rt, mutex, calls, crashed, prepared, up,
                   vflow, vres, vnamed, msgVars>>

----------------------------------------------------------------------------
(* The engine: API calls and workers interleaved *)

Next ==
    \/ \E f \in FlowIds : PrepareFlow(f)
    \/ \E f \in FlowIds : PrepareAndStartFlow(f)
    \/ \E f \in FlowIds : EngineStartFlow(f)
    \/ \E f \in FlowIds : EngineTriggerFlow(f)
    \/ \E k \in calls : RegisterFlow(k)
    \/ \E f \in FlowIds : StartFlow(f)
    \/ \E k \in calls : StartPrepared(k)
    \/ \E f \in FlowIds : StopFlowBegin(f)
    \/ \E k \in calls : StopFlowEnd(k)
    \/ \E f \in FlowIds : GetFlowStatus(f)
    \/ \E w \in workers : WorkerExit(w)
    \/ \E w \in workers : WorkerTick(w)
    \/ \E w \in workers : WorkerReceive(w)
    \/ \E w \in workers : WorkerDistribute(w)

Spec == Init /\ [][Next]_vars

----------------------------------------------------------------------------
(* ValidateFlow on the flow definitions a caller can build: Flow.AddNode   *)
(* and Flow.AddConnection append to the definition, ValidateFlow judges it *)

NodeIdChoices == {"a", "b"}

\* block type and the input/output counts a node specification carries
NodeShapes ==
    { <<"inject", 0, 1>>, <<"add", 1, 1>>, <<"debug", 1, 0>>, <<"debug", 1, 1>>,
      <<"unknown-type", 1, 1>> }

NodeChoices ==
    {Node(id, sh[1], sh[2], sh[3], NoProps) : id \in NodeIdChoices, sh \in NodeShapes}

ConnChoices ==
    {Connection(src, sp, tgt, tp) :
        src \in NodeIdChoices \cup {"z"}, sp \in 0..1,
        tgt \in NodeIdChoices \cup {"z"}, tp \in 0..1}

\* Flow.AddNode: f.Nodes = append(f.Nodes, node)
AddNode(node) ==
    /\ Len(vflow.Nodes) < MaxNodes
    /\ vflow' = [vflow EXCEPT !.Nodes = Append(@, node)]
    /\ vres' = "none"
    /\ vnamed' = ""
    /\ UNCHANGED msgVars
    /\ UNCHANGED engineVars

\* Flow.AddConnection: f.Connections = append(f.Connections, conn)
AddConnection(conn) ==
    /\ Len(vflow.Connections) < MaxConns
    /\ vflow' = [vflow EXCEPT !.Connections = Append(@, conn)]
    /\ vres' = "none"
    /\ vnamed' = ""
    /\ UNCHANGED msgVars
    /\ UNCHANGED engineVars

\* fe.ValidateFlow(flow)
CallValidateFlow ==
    /\ vres = "none"
    /\ vres' = ValidateFlow(registry, vflow)
    /\ vnamed' = ValidateFlowNamed(registry, vflow)
    /\ UNCHANGED <<vflow, msgVars>>
    /\ UNCHANGED engineVars

NextValidate ==
    \/ \E node \in NodeChoices : AddNode(node)
    \/ \E conn \in ConnChoices : AddConnection(conn)
    \/ CallValidateFlow

SpecValidate == Init /\ [][NextValidate]_vars

----------------------------------------------------------------------------
(* PrepareFlow and PrepareAndStartFlow on the flow definitions a caller    *)
(* can build: the definition is built first and handed over afterwards     *)

\* nothing has been handed to the executor yet
ExecutorIdle ==
    /\ calls = {}
    /\ workers = {}
    /\ ret = NoRet
    /\ \A f \in FlowIds : flows[f] = 0 /\ ~prepared[f]

BuildNode(node) == ExecutorIdle /\ AddNode(node)

BuildConnection(conn) == ExecutorIdle /\ AddConnection(conn)

ValidateDefinition == ExecutorIdle /\ CallValidateFlow

\* the definition built, under the flow id f
Definition(f) == [vflow EXCEPT !.ID = f]

\* fe.PrepareFlow(flow) on the definition
PrepareDefinition(f) ==
    PrepareStep("PrepareFlow", Definition(f), PrepareFlowError(registry, Definition(f)))

\* fe.PrepareAndStartFlow(flow) on the definition, up to the return of PrepareFlow
PrepareAndStartDefinition(f) ==
    PrepareStep("PrepareAndStartFlow", Definition(f),
                PrepareFlowError(registry, Definition(f)))

NextPrepare ==
    \/ \E node \in NodeChoices : BuildNode(node)
    \/ \E conn \in ConnChoices : BuildConnection(conn)
    \/ ValidateDefinition
    \/ \E f \in FlowIds : PrepareDefinition(f)
    \/ \E f \in FlowIds : PrepareAndStartDefinition(f)
    \/ \E k \in calls : RegisterFlow(k)
    \/ \E k \in calls : StartPrepared(k)

SpecPrepare == Init /\ [][NextPrepare]_vars

----------------------------------------------------------------------------
(* Message flow: one flow with a fan-out, a channel fed by two nodes and   *)
(* a connection that leaves an Action node, started once                   *)

\* i: inject("5"), a: add(1), d: debug whose specification declares an output
\*   i -> a, i -> d, a -> d, d -> a
FanOutFlow(f) ==
    Flow(f, << Node("i", "inject", 0, 1, [payload |-> Str("5")]),
               Node("a", "add", 1, 1, [value |-> Num(1)]),
               Node("d", "debug", 1, 1, NoProps) >>,
            << Connection("i", 0, "a", 0), Connection("i", 0, "d", 0),
               Connection("a", 0, "d", 0), Connection("d", 0, "a", 0) >>)

\* fe.PrepareAndStartFlow(flow) on the fan-out flow, up to the return of
\* PrepareFlow
StartFanOut(f) ==
    /\ ExecutorIdle
    /\ PrepareStep("PrepareAndStartFlow", FanOutFlow(f),
                   PrepareFlowError(registry, FanOutFlow(f)))

\* the ticker of the Input node in the fan-out flow
WorkerTickBacklog(w) == TickStep(w, MaxBacklog)

NextMessages ==
    \/ \E f \in FlowIds : StartFanOut(f)
    \/ \E k \in calls : RegisterFlow(k)
    \/ \E k \in calls : StartPrepared(k)
    \/ \E w \in workers : WorkerTickBacklog(w)
    \/ \E w \in workers : WorkerReceive(w)
    \/ \E w \in workers : WorkerDistribute(w)

SpecMessages == Init /\ [][NextMessages]_vars

----------------------------------------------------------------------------
(* The example flow Inject(5) -> Add(3) -> Multiply(2) -> Debug, started   *)
(* once and left running                                                   *)

PipelineFlow(f) ==
    Flow(f, << Node("i", "inject", 0, 1, [payload |-> Str("5")]),
               Node("a", "add", 1, 1, [value |-> Num(3)]),
               Node("m", "multiply", 1, 1, [value |-> Num(2)]),
               Node("d", "debug", 1, 0, NoProps) >>,
            << Connection("i", 0, "a", 0), Connection("a", 0, "m", 0),
               Connection("m", 0, "d", 0) >>)

\* fe.PrepareAndStartFlow(flow) on the example flow, up to the return of
\* PrepareFlow
StartPipeline(f) ==
    /\ ExecutorIdle
    /\ PrepareStep("PrepareAndStartFlow", PipelineFlow(f),
                   PrepareFlowError(registry, PipelineFlow(f)))

NextPipeline ==
    \/ \E f \in FlowIds : StartPipeline(f)
    \/ \E k \in calls : RegisterFlow(k)
    \/ \E k \in calls : StartPrepared(k)
    \/ \E w \in workers : WorkerTickBacklog(w)
    \/ \E w \in workers : WorkerReceive(w)
    \/ \E w \in workers : WorkerDistribute(w)

SpecPipeline == Init /\ [][NextPipeline]_vars

----------------------------------------------------------------------------
(* A flow with a divide block, Inject(5) -> Divide(divisor) -> Debug: the   *)
(* divisor is the caller's choice                                          *)

Divisors == {0, 5}

DivideFlow(f, divisor) ==
    Flow(f, << Node("i", "inject", 0, 1, [payload |-> Str("5")]),
               Node("v", "divide", 1, 1, [value |-> Num(divisor)]),
               Node("d", "debug", 1, 0, NoProps) >>,
            << Connection("i", 0, "v", 0), Connection("v", 0, "d", 0) >>)

\* fe.PrepareAndStartFlow(flow) on the flow, up to the return of PrepareFlow
StartDivide(f, divisor) ==
    /\ ExecutorIdle
    /\ PrepareStep("PrepareAndStartFlow", DivideFlow(f, divisor),
                   PrepareFlowError(registry, DivideFlow(f, divisor)))

NextDivide ==
    \/ \E f \in FlowIds, divisor \in Divisors : StartDivide(f, divisor)
    \/ \E k \in calls : RegisterFlow(k)
    \/ \E k \in calls : StartPrepared(k)
    \/ \E w \in workers : WorkerTickBacklog(w)
    \/ \E w \in workers : WorkerReceive(w)
    \/ \E w \in workers : WorkerDistribute(w)

SpecDivide == Init /\ [][NextDivide]_vars

----------------------------------------------------------------------------
(* The registry on its own: Register, CreateBlock and GetBlockInfoByType   *)
(* called in any order.  A factory is written as the BlockInfo it reports, *)
(* and a block by the factory that made it.                                *)

\* the factories callers register: the built-in add and debug factories,
\* factories that shadow them, and two factories of a type of their own
Factories ==
    { RegisterBuiltinBlocks["add"], BlockInfo("add", ActionGroup, 1, 0),
      RegisterBuiltinBlocks["debug"], BlockInfo("debug", PropagationGroup, 1, 1),
      BlockInfo("plugin", PropagationGroup, 1, 1), BlockInfo("plugin", InputGroup, 0, 1) }

\* the block types callers ask for
LookupTypes == {"inject", "add", "debug", "plugin", "other"}

\* NewBlockError(message, blockType, nil)
NewBlockError(message, blockType) == [Message |-> message, BlockType |-> blockType]

\* a Register that keeps the entry a type has already
RegisterFirstWins(reg, factory) ==
    IF factory.Type \in DOMAIN reg THEN reg
    ELSE [t \in DOMAIN reg \cup {factory.Type} |->
             IF t = factory.Type THEN factory ELSE reg[t]]

\* Registry.Register: r.blocks[info.Type] = factory
Register(reg, factory) ==
    [t \in DOMAIN reg \cup {factory.Type} |->
        IF t = factory.Type THEN factory ELSE reg[t]]

\* a lookup that knows the built-in types only
LookupBuiltinOnly(reg, type) ==
    IF type \in DOMAIN RegisterBuiltinBlocks /\ type \in DOMAIN reg
    THEN [err |-> "ok", obj |-> reg[type]]
    ELSE [err |-> "unknown block type",
          obj |-> NewBlockError("unknown block type", type)]

\* factory, exists := r.blocks[blockType] of CreateBlock and
\* GetBlockInfoByType: the factory, or the error that names the type
Lookup(reg, type) ==
    IF type \in DOMAIN reg
    THEN [err |-> "ok", obj |-> reg[type]]
    ELSE [err |-> "unknown block type",
          obj |-> NewBlockError("unknown block type", type)]

\* registry.Register(factory)
CallRegister(factory) ==
    /\ registry' = Register(registry, factory)
    /\ ret' = Return("Register", factory.Type, "ok", FALSE, factory)
    /\ exec' = NoExec
    /\ dist' = NoDist
    /\ UNCHANGED <<flows, rt, inputChan, stale, workers, mutex, calls, crashed, prepared,
                   up, vflow, vres, vnamed, msgVars>>

\* registry.CreateBlock(blockType)
CallCreateBlock(type) ==
    /\ ret' = Return("CreateBlock", type, Lookup(registry, type).err, FALSE,
                     Lookup(registry, type).obj)
    /\ exec' = NoExec
    /\ dist' = NoDist
    /\ UNCHANGED <<registry, flows, rt, inputChan, stale, workers, mutex, calls, crashed,
                   prepared, up, vflow, vres, vnamed, msgVars>>

\* registry.GetBlockInfoByType(blockType)
CallGetBlockInfoByType(type) ==
    /\ ret' = Return("GetBlockInfoByType", type, Lookup(registry, type).err, FALSE,
                     Lookup(registry, type).obj)
    /\ exec' = NoExec
    /\ dist' = NoDist
    /\ UNCHANGED <<registry, flows, rt, inputChan, stale, workers, mutex, calls, crashed,
                   prepared, up, vflow, vres, vnamed, msgVars>>

NextRegistry ==
    \/ \E factory \in Factories : CallRegister(factory)
    \/ \E type \in LookupTypes : CallCreateBlock(type)
    \/ \E type \in LookupTypes : CallGetBlockInfoByType(type)

SpecRegistry == Init /\ [][NextRegistry]_vars

----------------------------------------------------------------------------
(* The registry under concurrent callers.  The Registry struct holds the   *)
(* map and nothing else, and its methods take no lock: a call is entered,  *)
(* and its access to the map is made, whatever other calls are in          *)
(* progress.  A map write that runs at the same time as another access of  *)
(* the map is a data race: the Go runtime may end the process with         *)
(* "concurrent map writes" / "concurrent map read and map write", or the   *)
(* accesses take effect in some order.                                     *)

RegistryReads == {"CreateBlock", "GetBlockInfoByType"}

\* the factory a caller registers for a type
FactoryOf(type) ==
    CHOOSE factory \in Factories : factory.Type = type /\ factory.BlockGroup = PropagationGroup

\* the call k runs while another call accesses the map, one of them a Register
Racing(k) ==
    \E j \in calls \ {k} :
       /\ j.pc \in RegistryReads \cup {"Register"}
       /\ k.pc = "Register" \/ j.pc = "Register"

\* a caller enters Register, CreateBlock or GetBlockInfoByType
RegistryCall(op, type, by) ==
    /\ ~crashed
    /\ CanCall
    /\ \A k \in calls : k.by # by
    /\ op = "Register" => \E factory \in Factories : factory.Type = type
    /\ calls' = calls \cup {[pc |-> op, flow |-> type, rf |-> 0, by |-> by]}
    /\ ret' = NoRet
    /\ exec' = NoExec
    /\ dist' = NoDist
    /\ UNCHANGED <<registry, flows, rt, inputChan, stale, workers, mutex, crashed, prepared,
                   up, vflow, vres, vnamed, msgVars>>

\* r.blocks[info.Type] = factory, and the return of Register
RegisterReturn(k) ==
    /\ ~crashed
    /\ k.pc = "Register"
    /\ registry' = Register(registry, FactoryOf(k.flow))
    /\ calls' = calls \ {k}
    /\ crashed' \in IF Racing(k) THEN BOOLEAN ELSE {FALSE}
    /\ ret' = Return("Register", k.flow, "ok", FALSE, FactoryOf(k.flow))
    /\ exec' = NoExec
    /\ dist' = NoDist
    /\ UNCHANGED <<flows, rt, inputChan, stale, workers, mutex, prepared,
                   up, vflow, vres, vnamed, msgVars>>

\* factory, exists := r.blocks[blockType], and the return of the lookup
LookupReturn(k) ==
    /\ ~crashed
    /\ k.pc \in RegistryReads
    /\ calls' = calls \ {k}
    /\ crashed' \in IF Racing(k) THEN BOOLEAN ELSE {FALSE}
    /\ ret' = Return(k.pc, k.flow, Lookup(registry, k.flow).err, FALSE,
                     Lookup(registry, k.flow).obj)
    /\ exec' = NoExec
    /\ dist' = NoDist
    /\ UNCHANGED <<registry, flows, rt, inputChan, stale, workers, mutex, prepared,
                   up, vflow, vres, vnamed, msgVars>>

NextRace ==
    \/ \E op \in RegistryReads \cup {"Register"}, type \in LookupTypes, by \in Callers :
          RegistryCall(op, type, by)
    \/ \E k \in calls : RegisterReturn(k)
    \/ \E k \in calls : LookupReturn(k)

SpecRace == Init /\ [][NextRace]_vars

----------------------------------------------------------------------------
(* Shutdown of a flow whose queues keep being refilled: a fan-in at d and  *)
(* a self-loop at m.  The flow is started once; StopFlow is called at any  *)
(* time.                                                                   *)

\* i: inject("5"), m: multiply(1), d: debug
\*   i -> m, i -> d, m -> m, m -> d
LoopFlow(f) ==
    Flow(f, << Node("i", "inject", 0, 1, [payload |-> Str("5")]),
               Node("m", "multiply", 1, 1, [value |-> Num(1)]),
               Node("d", "debug", 1, 0, NoProps) >>,
            << Connection("i", 0, "m", 0), Connection("i", 0, "d", 0),
               Connection("m", 0, "m", 0), Connection("m", 0, "d", 0) >>)

LoopNodes == {"i", "m", "d"}

\* the ticker of the Input node in this flow
WorkerTickRefill(w) == TickStep(w, MaxRefill)

\* fe.PrepareAndStartFlow(flow) on the flow, up to the return of PrepareFlow
StartLoop(f) ==
    /\ ExecutorIdle
    /\ PrepareStep("PrepareAndStartFlow", LoopFlow(f),
                   PrepareFlowError(registry, LoopFlow(f)))

NextStop ==
    \/ \E f \in FlowIds : StartLoop(f)
    \/ \E k \in calls : RegisterFlow(k)
    \/ \E k \in calls : StartPrepared(k)
    \/ \E f \in FlowIds : StopFlowBegin(f)
    \/ \E k \in calls : StopFlowEnd(k)
    \/ \E w \in workers : WorkerExit(w)
    \/ \E w \in workers : WorkerTickRefill(w)
    \/ \E w \in workers : WorkerReceive(w)
    \/ \E w \in workers : WorkerDistribute(w)

\* Scheduling: a goroutine that can run does run (the distribution loop of a
\* worker and the return of StopFlow after Wait go on), and a select with
\* several ready cases picks one at random, so a worker that comes back to
\* its select again and again while the stop channel is closed takes the
\* stop case at some time.
FairStop ==
    /\ \A n \in LoopNodes : SF_vars(\E w \in workers : w.node = n /\ WorkerExit(w))
    /\ \A n \in LoopNodes : WF_vars(\E w \in workers : w.node = n /\ WorkerDistribute(w))
    /\ WF_vars(\E k \in calls : StopFlowEnd(k))

SpecStop == Init /\ [][NextStop]_vars /\ FairStop

----------------------------------------------------------------------------
(* A flow whose Input node is configured by the caller:                    *)
(* Inject(payload) -> Add(1) -> Debug, with a payload that is a number or  *)
(* is not                                                                  *)

InjectPayloads == {"5", "x"}

InjectFlow(f, payload) ==
    Flow(f, << Node("i", "inject", 0, 1, [payload |-> Str(payload)]),
               Node("a", "add", 1, 1, [value |-> Num(1)]),
               Node("d", "debug", 1, 0, NoProps) >>,
            << Connection("i", 0, "a", 0), Connection("a", 0, "d", 0) >>)

\* fe.PrepareAndStartFlow(flow) on the flow, up to the return of PrepareFlow
StartInject(f, payload) ==
    /\ ExecutorIdle
    /\ PrepareStep("PrepareAndStartFlow", InjectFlow(f, payload),
                   PrepareFlowError(registry, InjectFlow(f, payload)))

NextInject ==
    \/ \E f \in FlowIds, payload \in InjectPayloads : StartInject(f, payload)
    \/ \E k \in calls : RegisterFlow(k)
    \/ \E k \in calls : StartPrepared(k)
    \/ \E w \in workers : WorkerTickBacklog(w)
    \/ \E w \in workers : WorkerReceive(w)
    \/ \E w \in workers : WorkerDistribute(w)

SpecInject == Init /\ [][NextInject]_vars

----------------------------------------------------------------------------
(* A flow with a cycle and a self-loop and no sink:                        *)
(* Inject -> a, a -> b, b -> a, b -> b                                     *)

CycleFlow(f) ==
    Flow(f, << Node("i", "inject", 0, 1, [payload |-> Str("5")]),
               Node("a", "multiply", 1, 1, [value |-> Num(1)]),
               Node("b", "multiply", 1, 1, [value |-> Num(1)]) >>,
            << Connection("i", 0, "a", 0), Connection("a", 0, "b", 0),
               Connection("b", 0, "a", 0), Connection("b", 0, "b", 0) >>)

\* fe.PrepareAndStartFlow(flow) on the flow, up to the return of PrepareFlow
StartCycle(f) ==
    /\ ExecutorIdle
    /\ PrepareStep("PrepareAndStartFlow", CycleFlow(f),
                   PrepareFlowError(registry, CycleFlow(f)))

NextCycle ==
    \/ \E f \in FlowIds : StartCycle(f)
    \/ \E k \in calls : RegisterFlow(k)
    \/ \E k \in calls : StartPrepared(k)
    \/ \E w \in workers : WorkerTickBacklog(w)
    \/ \E w \in workers : WorkerReceive(w)
    \/ \E w \in workers : WorkerDistribute(w)

SpecCycle == Init /\ [][NextCycle]_vars

----------------------------------------------------------------------------
(* Wiring: three nodes whose specifications declare two outputs, wired by  *)
(* the caller with up to MaxWires connections, then prepared or started    *)

WiredNodes ==
    << Node("i", "inject", 0, 2, [payload |-> Str("5")]),
       Node("m", "multiply", 1, 2, [value |-> Num(1)]),
       Node("d", "debug", 1, 0, NoProps) >>

WireChoices ==
    {Connection(src, sp, tgt, 0) : src \in {"i", "m"}, sp \in 0..1, tgt \in {"m", "d"}}

\* Flow.AddNode for the three nodes
AddWiredNodes ==
    /\ ExecutorIdle
    /\ vflow.Nodes = << >>
    /\ vflow' = [vflow EXCEPT !.Nodes = WiredNodes]
    /\ vres' = "none"
    /\ vnamed' = ""
    /\ UNCHANGED msgVars
    /\ UNCHANGED engineVars

\* Flow.AddConnection: f.Connections = append(f.Connections, conn)
AddWire(conn) ==
    /\ ExecutorIdle
    /\ vflow.Nodes # << >>
    /\ Len(vflow.Connections) < MaxWires
    /\ vflow' = [vflow EXCEPT !.Connections = Append(@, conn)]
    /\ vres' = "none"
    /\ vnamed' = ""
    /\ UNCHANGED msgVars
    /\ UNCHANGED engineVars

\* fe.PrepareFlow(flow) on the wired definition
PrepareWired(f) == ExecutorIdle /\ PrepareDefinition(f)

\* fe.PrepareAndStartFlow(flow) on the wired definition, up to the return of
\* PrepareFlow
StartWired(f) == ExecutorIdle /\ PrepareAndStartDefinition(f)

NextWire ==
    \/ AddWiredNodes
    \/ \E conn \in WireChoices : AddWire(conn)
    \/ \E f \in FlowIds : PrepareWired(f)
    \/ \E f \in FlowIds : StartWired(f)
    \/ \E k \in calls : RegisterFlow(k)
    \/ \E k \in calls : StartPrepared(k)
    \/ \E w \in workers : WorkerTick(w)
    \/ \E w \in workers : WorkerReceive(w)
    \/ \E w \in workers : WorkerDistribute(w)

SpecWire == Init /\ [][NextWire]_vars

----------------------------------------------------------------------------
(* The executor's lock: StartFlow step by step, called by several callers  *)
(* at once, beside PrepareAndStartFlow, StopFlow and GetFlowStatus; and a  *)
(* flow that is submitted again after an edit that broke it.               *)

\* a caller enters StartFlow(f) and comes to fe.mutex.Lock()
StartFlowCall(f, by) ==
    /\ ~crashed
    /\ CanCall
    /\ \A k \in calls : k.by # by
    /\ calls' = calls \cup {[pc |-> "startLock", flow |-> f, rf |-> 0, by |-> by]}
    /\ ret' = NoRet
    /\ exec' = NoExec
    /\ dist' = NoDist
    /\ UNCHANGED <<registry, flows, rt, inputChan, stale, workers, mutex, crashed, prepared,
                   up, vflow, vres, vnamed, msgVars>>

\* fe.mutex.Lock() returns
StartFlowLock(k) ==
    /\ ~crashed
    /\ k.pc = "startLock"
    /\ LockFree(mutex)
    /\ mutex' = "held"
    /\ calls' = Moved(k, "startCheck")
    /\ ret' = NoRet
    /\ exec' = NoExec
    /\ dist' = NoDist
    /\ UNCHANGED <<registry, flows, rt, inputChan, stale, workers, crashed, prepared,
                   up, vflow, vres, vnamed, msgVars>>

\* the lookup in fe.flows and the check of runtimeFlow.Running; a failed
\* check returns, and the deferred Unlock runs
StartFlowCheck(k) ==
    /\ ~crashed
    /\ k.pc = "startCheck"
    /\ LET r == flows[k.flow]
       IN  IF r = 0 \/ AlreadyRunning(r)
           THEN /\ ret' = Return("StartFlow", k.flow,
                                 IF r = 0 THEN "not prepared" ELSE "already running",
                                 FALSE, NoRF)
                /\ calls' = calls \ {k}
                /\ mutex' = "free"
           ELSE /\ ret' = NoRet
                /\ calls' = (calls \ {k}) \cup {[k EXCEPT !.pc = "startSpawn", !.rf = r]}
                /\ UNCHANGED mutex
    /\ rt' = CollectRt(rt, flows, calls', workers)
    /\ inputChan' = CollectChans(inputChan, flows, calls', workers)
    /\ stale' = StillQueued(stale, inputChan')
    /\ exec' = NoExec
    /\ dist' = NoDist
    /\ UNCHANGED <<registry, flows, workers, crashed, prepared, up, vflow, vres, vnamed,
                   msgVars>>

\* Running = true, a goroutine for every node, the return and the deferred
\* Unlock
StartFlowSpawn(k) ==
    /\ ~crashed
    /\ k.pc = "startSpawn"
    /\ workers' = workers \cup SpawnWorkers(k.rf, rt[k.rf].runs + 1)
    /\ calls' = calls \ {k}
    /\ rt' = CollectRt([rt EXCEPT ![k.rf].Running = TRUE,
                                  ![k.rf].wg = @ + WaitGroupAdds(k.rf),
                                  ![k.rf].runs = @ + 1],
                       flows, calls', workers')
    /\ inputChan' = CollectChans(inputChan, flows, calls', workers')
    /\ stale' = StillQueued(stale, inputChan')
    /\ up' = [up EXCEPT ![k.flow] = TRUE]
    /\ mutex' = "free"
    /\ ret' = Return("StartFlow", k.flow, "ok", FALSE, NoRF)
    /\ exec' = NoExec
    /\ dist' = NoDist
    /\ UNCHANGED <<registry, flows, crashed, prepared, vflow, vres, vnamed, msgVars>>

\* the flow f1 after an edit that added a connection to a node that is not
\* in the flow, under the flow id f
EditedFlow(f) ==
    [LoadFlow("f1") EXCEPT !.ID = f,
                           !.Connections = Append(@, Connection("n2", 0, "n9", 0))]

\* fe.PrepareAndStartFlow(flow) on the edited flow, up to the return of
\* PrepareFlow
ResubmitEdited(f) ==
    PrepareStep("PrepareAndStartFlow", EditedFlow(f),
                PrepareFlowError(registry, EditedFlow(f)))

NextLock ==
    \/ \E f \in FlowIds : PrepareAndStartFlow(f)
    \/ \E f \in FlowIds : ResubmitEdited(f)
    \/ \E k \in calls : RegisterFlow(k)
    \/ \E k \in calls : StartPrepared(k)
    \/ \E f \in FlowIds, by \in Callers : StartFlowCall(f, by)
    \/ \E k \in calls : StartFlowLock(k)
    \/ \E k \in calls : StartFlowCheck(k)
    \/ \E k \in calls : StartFlowSpawn(k)
    \/ \E f \in FlowIds : StopFlowBegin(f)
    \/ \E k \in calls : StopFlowEnd(k)
    \/ \E f \in FlowIds : GetFlowStatus(f)
    \/ \E w \in workers : WorkerExit(w)
    \/ \E w \in workers : WorkerTick(w)
    \/ \E w \in workers : WorkerReceive(w)
    \/ \E w \in workers : WorkerDistribute(w)

SpecLock == Init /\ [][NextLock]_vars

----------------------------------------------------------------------------
(* Manual trigger: a stored flow is started through the engine, and        *)
(* Engine.TriggerFlow is called on it while it runs                        *)

\* the first e.StartFlow(ctx, flowID), on an executor nothing was handed to
FirstEngineStart(f) == ExecutorIdle /\ EngineStartFlow(f)

\* e.TriggerFlow(ctx, flowID, input) on a flow whose entry is Running
TriggerRunning(f) ==
    /\ flows[f] # 0
    /\ rt[flows[f]].Running
    /\ EngineTriggerFlow(f)

NextTrigger ==
    \/ \E f \in FlowIds : FirstEngineStart(f)
    \/ \E f \in FlowIds : TriggerRunning(f)
    \/ \E k \in calls : RegisterFlow(k)
    \/ \E k \in calls : StartPrepared(k)
    \/ \E w \in workers : WorkerTickBacklog(w)
    \/ \E w \in workers : WorkerReceive(w)
    \/ \E w \in workers : WorkerDistribute(w)

SpecTrigger == Init /\ [][NextTrigger]_vars

----------------------------------------------------------------------------
(* Message objects: NewMessage, Clone, SetHeader and SetContext on a heap  *)
(* of Message objects whose Headers and Context fields refer to map        *)
(* objects (0: the nil map)                                                *)

HeaderKeys == {"k"}

HeaderValues == {"u", "v"}

Payloads == {Num(5), Str("5")}

LiveMsgs == {h \in 1..MaxMsgs : msgs[h].ID # 0}

MsgIDs == {msgs[h].ID : h \in LiveMsgs}

\* &Message{...}: the next free Message object
FreeMsg == CHOOSE h \in 1..MaxMsgs : msgs[h].ID = 0 /\ \A g \in 1..(h - 1) : msgs[g].ID # 0

\* make(map[...]...): a new, empty map object
MakeMap(ms) ==
    LET ref == CHOOSE m \in DOMAIN ms : ~ms[m].live /\ \A n \in 1..(m - 1) : ms[n].live
    IN  [maps |-> [ms EXCEPT ![ref] = [live |-> TRUE, entries |-> EmptyEntries]],
         ref |-> ref]

\* m[key] = value
SetEntry(e, key, value) ==
    [x \in DOMAIN e \cup {key} |-> IF x = key THEN value ELSE e[x]]

\* a copy that takes over the reference to the map of the original
ShareMap(ms, ref) == [maps |-> ms, ref |-> ref]

\* Clone's copy of a map field: nil stays nil, otherwise a new map gets every
\* entry of the original
CopyMap(ms, ref) ==
    IF ref = 0 THEN [maps |-> ms, ref |-> 0]
    ELSE LET m == MakeMap(ms)
         IN  [maps |-> [m.maps EXCEPT ![m.ref].entries = ms[ref].entries],
              ref |-> m.ref]

\* models.NewMessage(payload)
MessageNew(payload) ==
    /\ LiveMsgs # 1..MaxMsgs
    /\ LET hm == MakeMap(maps)
           cm == MakeMap(hm.maps)
       IN  /\ msgs' = [msgs EXCEPT ![FreeMsg] =
                          [ID |-> generateID(MsgIDs), Payload |-> payload,
                           Headers |-> hm.ref, Context |-> cm.ref]]
           /\ maps' = cm.maps
    /\ mlast' = [op |-> "NewMessage", on |-> 0, new |-> FreeMsg]
    /\ UNCHANGED <<vflow, vres, vnamed>>
    /\ UNCHANGED engineVars

\* m.Clone() on the Message object h
MessageClone(h) ==
    /\ h \in LiveMsgs
    /\ LiveMsgs # 1..MaxMsgs
    /\ LET hm == CopyMap(maps, msgs[h].Headers)
           cm == CopyMap(hm.maps, msgs[h].Context)
       IN  /\ msgs' = [msgs EXCEPT ![FreeMsg] =
                          [ID |-> generateID(MsgIDs), Payload |-> msgs[h].Payload,
                           Headers |-> hm.ref, Context |-> cm.ref]]
           /\ maps' = cm.maps
    /\ mlast' = [op |-> "Clone", on |-> h, new |-> FreeMsg]
    /\ UNCHANGED <<vflow, vres, vnamed>>
    /\ UNCHANGED engineVars

\* m.SetHeader(key, value) on the Message object h
SetHeader(h, key, value) ==
    /\ h \in LiveMsgs
    /\ LET m == IF msgs[h].Headers = 0 THEN MakeMap(maps)
                ELSE [maps |-> maps, ref |-> msgs[h].Headers]
       IN  /\ msgs' = [msgs EXCEPT ![h].Headers = m.ref]
           /\ maps' = [m.maps EXCEPT ![m.ref].entries = SetEntry(@, key, value)]
    /\ mlast' = [op |-> "SetHeader", on |-> h, new |-> 0]
    /\ UNCHANGED <<vflow, vres, vnamed>>
    /\ UNCHANGED engineVars

\* m.SetContext(key, value) on the Message object h
SetContext(h, key, value) ==
    /\ h \in LiveMsgs
    /\ LET m == IF msgs[h].Context = 0 THEN MakeMap(maps)
                ELSE [maps |-> maps, ref |-> msgs[h].Context]
       IN  /\ msgs' = [msgs EXCEPT ![h].Context = m.ref]
           /\ maps' = [m.maps EXCEPT ![m.ref].entries = SetEntry(@, key, value)]
    /\ mlast' = [op |-> "SetContext", on |-> h, new |-> 0]
    /\ UNCHANGED <<vflow, vres, vnamed>>
    /\ UNCHANGED engineVars

\* m.GetHeader / m.GetContext read: the entries of the map (none for nil)
HeadersOf(ms, mp, h) == IF ms[h].Headers = 0 THEN EmptyEntries ELSE mp[ms[h].Headers].entries

ContextOf(ms, mp, h) == IF ms[h].Context = 0 THEN EmptyEntries ELSE mp[ms[h].Context].entries

NextClone ==
    \/ \E payload \in Payloads : MessageNew(payload)
    \/ \E h \in 1..MaxMsgs : MessageClone(h)
    \/ \E h \in 1..MaxMsgs, key \in HeaderKeys, value \in HeaderValues :
          SetHeader(h, key, value)
    \/ \E h \in 1..MaxMsgs, key \in HeaderKeys, value \in HeaderValues :
          SetContext(h, key, value)

SpecClone == Init /\ [][NextClone]_vars

----------------------------------------------------------------------------
(* Properties of the lifecycle operations                                  *)

\* the live workers of the RuntimeFlow object r
WorkersOf(r) == {w \in workers : w.rf = r}

\* the RuntimeFlow objects in existence that were prepared for flow id f
InstancesOf(f) == {r \in 1..MaxRF : rt[r].ID = f}

\* the errors with which PrepareFlow fails
PrepareErrors == {"flow validation failed", "failed to create block"}

\* C1: a FlowExecutor.StartFlow (called directly or as the last step of
\* PrepareAndStartFlow) that finds the flow id's RuntimeFlow Running returns
\* "already running", creates no worker and leaves the flow table, the
\* RuntimeFlow (running flag, stop channel, wait group) and the worker set
\* as they were.
C1_StartRunningRejected ==
    [][ \A f \in FlowIds :
          ( /\ ret'.op \in {"StartFlow", "PrepareAndStartFlow"}
            /\ ret'.flow = f
            /\ ret'.err \notin PrepareErrors
            /\ flows[f] # 0
            /\ rt[flows[f]].Running )
          => /\ ret'.err = "already running"
             /\ flows' = flows
             /\ rt'[flows[f]] = rt[flows[f]]
             /\ workers' = workers
             /\ inputChan'[flows[f]] = inputChan[flows[f]] ]_vars

\* a StartFlow was just rejected for a flow that is Running with its workers
C1_Witness ==
    /\ ret.op = "StartFlow"
    /\ ret.err = "already running"
    /\ rt[flows[ret.flow]].Running
    /\ Cardinality(WorkersOf(flows[ret.flow])) = Cardinality(DOMAIN rt[flows[ret.flow]].Nodes)

\* C2: when a flow id was started and not stopped since, a further
\* Engine.StartFlow / PrepareAndStartFlow of it that gets past PrepareFlow
\* fails with "already running", and the flow table's entry is still Running.
C2_SecondEngineStartFails ==
    [][ \A f \in FlowIds :
          ( /\ ret'.op = "PrepareAndStartFlow"
            /\ ret'.flow = f
            /\ ret'.err \notin PrepareErrors
            /\ up[f] )
          => /\ ret'.err = "already running"
             /\ flows'[f] # 0
             /\ rt'[flows'[f]].Running ]_vars

\* C3: for every flow id at most one RuntimeFlow object is Running, and at
\* most one has live workers.
C3_OneRunningInstance ==
    \A f \in FlowIds :
        /\ Cardinality({r \in InstancesOf(f) : rt[r].Running}) <= 1
        /\ Cardinality({r \in InstancesOf(f) : WorkersOf(r) # {}}) <= 1

\* C4: when StopFlow returns without error the RuntimeFlow it stopped was
\* Running and is not any more, none of its workers is alive and its wait
\* group is at zero; and while a RuntimeFlow that has been started is not
\* Running, no step is an Execute of one of its workers and no step adds a
\* message to one of its input channels.
C4_StopWaitsForWorkers ==
    /\ [][ \A f \in FlowIds :
             (ret'.op = "StopFlow" /\ ret'.flow = f /\ ret'.err = "ok")
             => /\ flows[f] # 0
                /\ rt[flows[f]].Running
                /\ ~rt'[flows[f]].Running
                /\ rt'[flows[f]].wg = 0
                /\ {w \in workers' : w.rf = flows[f]} = {} ]_vars
    /\ [][ \A r \in 1..MaxRF :
             (rt[r].runs > 0 /\ ~rt[r].Running)
             => /\ exec'.rf # r
                /\ \A n \in DOMAIN inputChan[r] \cap DOMAIN inputChan'[r] :
                      Len(inputChan'[r][n]) <= Len(inputChan[r][n]) ]_vars

\* a StopFlow has just returned for a flow that leaves a message in a queue
C4_Witness ==
    /\ ret.op = "StopFlow"
    /\ ret.err = "ok"
    /\ rt[flows[ret.flow]].runs > 0
    /\ WorkersOf(flows[ret.flow]) = {}
    /\ \E n \in DOMAIN inputChan[flows[ret.flow]] : inputChan[flows[ret.flow]][n] # << >>

\* C5: a RuntimeFlow that is Running, and that no StopFlow is stopping, has
\* a stop channel that has not fired and a live worker for every node: also
\* when it was started again after a Stop.
C5_RestartHasFreshSignal ==
    \A r \in 1..MaxRF :
        (rt[r].Running /\ ~\E k \in calls : k.pc = "stopWait" /\ k.rf = r)
        => /\ rt[r].StopChan = "open"
           /\ \A n \in DOMAIN rt[r].Nodes : \E w \in workers : w.rf = r /\ w.node = n

\* C6: a StopFlow of a flow id without an entry in the flow table, or whose
\* entry is not Running, returns "not running"; a StartFlow of a flow id
\* without an entry returns "not prepared"; neither changes the flow table,
\* a RuntimeFlow, a channel, the worker set, the lock or the calls in progress.
C6_InvalidCallsRejected ==
    [][ \A f \in FlowIds :
          /\ ( /\ ret'.op = "StopFlow"
               /\ ret'.flow = f
               /\ (flows[f] = 0 \/ ~rt[flows[f]].Running) )
             => /\ ret'.err = "not running"
                /\ UNCHANGED <<flows, rt, inputChan, stale, workers, mutex, calls, crashed>>
          /\ ( /\ ret'.op = "StartFlow"
               /\ ret'.flow = f
               /\ flows[f] = 0 )
             => /\ ret'.err = "not prepared"
                /\ UNCHANGED <<flows, rt, inputChan, stale, workers, mutex, calls, crashed>> ]_vars

\* a StopFlow was just rejected for a flow id that is in the flow table, not
\* Running
C6_Witness ==
    /\ ret.op = "StopFlow"
    /\ ret.err = "not running"
    /\ flows[ret.flow] # 0
    /\ ~rt[flows[ret.flow]].Running

\* C7: when StartFlow returns without error the RuntimeFlow was not Running
\* and is now, every node of it has exactly one live worker, each of them at
\* the head of its loop, and the step neither executed a block nor changed a
\* channel of the flow.
C7_StartSpawnsOneWorkerPerNode ==
    [][ \A f \in FlowIds :
          ( /\ ret'.op \in {"StartFlow", "PrepareAndStartFlow"}
            /\ ret'.flow = f
            /\ ret'.err = "ok" )
          => /\ flows[f] # 0
             /\ ~rt[flows[f]].Running
             /\ rt'[flows[f]].Running
             /\ \A n \in DOMAIN rt[flows[f]].Nodes :
                   Cardinality({w \in workers' : w.rf = flows[f] /\ w.node = n}) = 1
             /\ \A w \in workers' :
                   w.rf = flows[f] => (w.node \in DOMAIN rt[flows[f]].Nodes /\ w.pc = "select")
             /\ exec' = NoExec
             /\ dist' = NoDist
             /\ inputChan'[flows[f]] = inputChan[flows[f]] ]_vars

\* a StartFlow has just returned without error and the flow's two workers have
\* not moved yet
C7_Witness ==
    /\ ret.op = "StartFlow"
    /\ ret.err = "ok"
    /\ rt[flows[ret.flow]].Running
    /\ Cardinality(WorkersOf(flows[ret.flow])) = 2
    /\ \A n \in DOMAIN inputChan[flows[ret.flow]] : inputChan[flows[ret.flow]][n] = << >>

\* C8: GetFlowStatus fails exactly for a flow id of which no PrepareFlow has
\* succeeded; when it does not fail it returns true exactly when a Start of
\* the flow id succeeded and no Stop of it has succeeded since.
C8_StatusFollowsLifecycle ==
    ret.op = "GetFlowStatus"
    => /\ (ret.err = "not found") <=> ~prepared[ret.flow]
       /\ ret.err = "ok" => (ret.val <=> up[ret.flow])

\* C9: the RuntimeFlow a successful PrepareFlow returns is not Running, has an
\* open stop channel and no worker; a StartFlow of the flow id that follows
\* succeeds unless the flow is up already, and a GetFlowStatus that follows
\* does not fail and reports the flow not running unless it is up.
C9_PrepareFlowMakesPrepared ==
    [][ \A f \in FlowIds :
          (ret.op = "PrepareFlow" /\ ret.flow = f /\ ret.err = "ok")
          => /\ ~ret.obj.Running
             /\ ret.obj.StopChan = "open"
             /\ ret.obj.wg = 0
             /\ (ret'.op = "StartFlow" /\ ret'.flow = f /\ ~up[f])
                => ret'.err = "ok"
             /\ (ret'.op = "GetFlowStatus" /\ ret'.flow = f /\ ~up[f])
                => (ret'.err = "ok" /\ ~ret'.val) ]_vars

----------------------------------------------------------------------------
(* Properties of ValidateFlow                                              *)

\* the nodes of the flow that carry the id
NodesWithId(flow, id) == {i \in 1..Len(flow.Nodes) : flow.Nodes[i].ID = id}

\* the connection names a node the flow does not have, or a port that every
\* node of that id lacks
ConnectionOutOfRange(flow, c) ==
    \/ NodesWithId(flow, c.Source) = {}
    \/ NodesWithId(flow, c.Target) = {}
    \/ \A i \in NodesWithId(flow, c.Source) : c.SourcePort >= flow.Nodes[i].Outputs
    \/ \A i \in NodesWithId(flow, c.Target) : c.TargetPort >= flow.Nodes[i].Inputs

\* the connection names nodes of the flow and ports that every node of that
\* id has
ConnectionInRange(flow, c) ==
    /\ NodesWithId(flow, c.Source) # {}
    /\ NodesWithId(flow, c.Target) # {}
    /\ \A i \in NodesWithId(flow, c.Source) : c.SourcePort < flow.Nodes[i].Outputs
    /\ \A i \in NodesWithId(flow, c.Target) : c.TargetPort < flow.Nodes[i].Inputs

\* the flow has a node and every node's type is a registered block type
NodesValid(flow) ==
    /\ Len(flow.Nodes) > 0
    /\ \A i \in 1..Len(flow.Nodes) : flow.Nodes[i].Type \in DOMAIN registry

\* C10: ValidateFlow returns an error whenever a connection of the flow has a
\* source or target id that no node carries, or a source port >= the source
\* node's Outputs, or a target port >= the target node's Inputs; it accepts
\* a flow with valid nodes all of whose connections have none of these.
C10_ValidateChecksConnections ==
    vres # "none"
    => /\ (\E k \in 1..Len(vflow.Connections) :
              ConnectionOutOfRange(vflow, vflow.Connections[k]))
          => vres # "ok"
       /\ ( /\ NodesValid(vflow)
            /\ \A k \in 1..Len(vflow.Connections) :
                  ConnectionInRange(vflow, vflow.Connections[k]) )
          => vres = "ok"

\* ValidateFlow has rejected, for its source port alone, a connection between
\* two nodes of the flow: port 1 of a node with one output
C10_Witness ==
    /\ vres = "invalid source port"
    /\ Len(vflow.Nodes) = 2
    /\ vflow.Nodes[1].ID # vflow.Nodes[2].ID
    /\ \E k \in 1..Len(vflow.Connections) :
          LET c == vflow.Connections[k]
          IN  /\ c.SourcePort = 1
              /\ \A i \in NodesWithId(vflow, c.Source) : vflow.Nodes[i].Outputs = 1
              /\ \A i \in NodesWithId(vflow, c.Target) : c.TargetPort < vflow.Nodes[i].Inputs

----------------------------------------------------------------------------
(* Properties of ValidateFlow and PrepareFlow on built definitions         *)

\* the definition has a node whose block type is not registered
HasUnregisteredType(flow) ==
    \E i \in 1..Len(flow.Nodes) : flow.Nodes[i].Type \notin DOMAIN registry

\* two nodes of the definition carry the same id
HasDuplicateIds(flow) ==
    \E i, j \in 1..Len(flow.Nodes) : i # j /\ flow.Nodes[i].ID = flow.Nodes[j].ID

\* C11: ValidateFlow returns "no blocks" for a definition without nodes and
\* "unknown block type", naming an unregistered type of the definition, for
\* one with a node of an unregistered type; PrepareFlow and
\* PrepareAndStartFlow of such a definition fail with "flow validation
\* failed", return no RuntimeFlow and change neither the flow table nor the
\* RuntimeFlow objects, the channels, the workers or the calls in progress.
C11_InvalidNodesRejected ==
    /\ [](vres # "none"
          => /\ Len(vflow.Nodes) = 0 => vres = "no blocks"
             /\ (Len(vflow.Nodes) > 0 /\ HasUnregisteredType(vflow))
                => /\ vres = "unknown block type"
                   /\ vnamed \notin DOMAIN registry
                   /\ \E i \in 1..Len(vflow.Nodes) : vflow.Nodes[i].Type = vnamed)
    /\ [][ ( /\ ret'.op \in {"PrepareFlow", "PrepareAndStartFlow"}
             /\ (Len(vflow.Nodes) = 0 \/ HasUnregisteredType(vflow)) )
           => /\ ret'.err = "flow validation failed"
              /\ ret'.obj = NoRF
              /\ UNCHANGED <<flows, rt, inputChan, stale, workers, calls, prepared, up>> ]_vars

\* PrepareAndStartFlow has just failed for a definition of two nodes, one of
\* them of the unregistered type that ValidateFlow named
C11_Witness ==
    /\ ret.op = "PrepareAndStartFlow"
    /\ ret.err = "flow validation failed"
    /\ vres = "unknown block type"
    /\ vnamed = "unknown-type"
    /\ Len(vflow.Nodes) = 2
    /\ \E i \in 1..2 : vflow.Nodes[i].Type \in DOMAIN registry
    /\ workers = {}

\* C12: a definition that ValidateFlow accepts has no connection whose
\* source port is >= the Outputs of the source node's block type or whose
\* target port is >= the Inputs of the target node's block type, whatever
\* Inputs and Outputs the node specifications carry.
C12_PortsOfBlockTypeEnforced ==
    vres = "ok"
    => \A k \in 1..Len(vflow.Connections) :
          LET c == vflow.Connections[k]
          IN  /\ \A i \in NodesWithId(vflow, c.Source) :
                    c.SourcePort < registry[vflow.Nodes[i].Type].Outputs
              /\ \A i \in NodesWithId(vflow, c.Target) :
                    c.TargetPort < registry[vflow.Nodes[i].Type].Inputs

\* C13: for a definition that ValidateFlow accepted, PrepareFlow returns a
\* RuntimeFlow with as many runtime nodes as the definition has nodes, and
\* so has every RuntimeFlow that PrepareAndStartFlow registered.
C13_OneRuntimeNodePerNode ==
    vres = "ok"
    => /\ ret.op = "PrepareFlow"
          => /\ ret.err = "ok"
             /\ Cardinality(DOMAIN ret.obj.Nodes) = Len(vflow.Nodes)
       /\ \A f \in FlowIds :
             flows[f] # 0 => Cardinality(DOMAIN rt[flows[f]].Nodes) = Len(vflow.Nodes)

\* C14: for a definition in which two nodes carry the same id, ValidateFlow
\* returns an error, PrepareFlow and PrepareAndStartFlow fail, and no
\* RuntimeFlow exists.
C14_DuplicateIdsRejected ==
    HasDuplicateIds(vflow)
    => /\ vres # "ok"
       /\ ret.op \in {"PrepareFlow", "PrepareAndStartFlow"} => ret.err # "ok"
       /\ \A r \in 1..MaxRF : rt[r] = NoRF

----------------------------------------------------------------------------
(* Properties of the message flow                                          *)

\* the worker whose distribution the step makes
Distributing(w) == w \in workers /\ w.pc = "dist" /\ dist'.rf = w.rf /\ dist'.node = w.node

\* how many connections of the node lead to target t
ConnectionsTo(w, t) ==
    Cardinality({i \in DOMAIN RtNode(w).OutputConnections :
                    RtNode(w).OutputConnections[i] = t})

\* C15: when a node's output is distributed, a target whose queue is full
\* keeps its queue as it is (the clone for it is dropped), every target with
\* room gets its clones appended behind what waits, up to the capacity,
\* whether or not another target was full, and the queues of nodes that are
\* no target, and of other RuntimeFlows, do not change.
C15_FullTargetDropsOnlyItsClone ==
    [][\A w \in workers : Distributing(w) =>
          \A k \in ChanKeys :
             LET r == k[1]
                 t == k[2]
                 before == inputChan[r][t]
                 after == inputChan'[r][t]
                 clones == Len(w.out) * ConnectionsTo(w, t)
             IN  /\ (r # w.rf \/ ConnectionsTo(w, t) = 0) => after = before
                 /\ (r = w.rf /\ Len(before) = ChanCap) => after = before
                 /\ (r = w.rf /\ Len(before) < ChanCap) =>
                        /\ Len(after) = IF Len(before) + clones <= ChanCap
                                        THEN Len(before) + clones ELSE ChanCap
                        /\ SubSeq(after, 1, Len(before)) = before
                        /\ \A i \in (Len(before) + 1)..Len(after) :
                              \E j \in DOMAIN w.out : after[i].payload = w.out[j].payload
      ]_vars

\* a distribution that dropped the clone for one target and delivered the
\* clone for another
C15_Witness ==
    /\ dist.dropped # << >>
    /\ dist.sent # << >>
    /\ \A i \in DOMAIN dist.sent : Len(inputChan[dist.rf][dist.sent[i].target]) >= 1

\* C16: no input queue ever holds more messages than the capacity it was
\* allocated with when the flow was prepared.
C16_QueueWithinCapacity ==
    \A k \in ChanKeys : Len(inputChan[k[1]][k[2]]) <= ChanCap

\* a queue at its capacity that a further clone was just dropped for
C16_Witness ==
    /\ dist.dropped # << >>
    /\ Len(inputChan[dist.rf][dist.dropped[1]]) = ChanCap

\* the block group of node n of RuntimeFlow r
GroupOfNode(r, n) == registry[rt[r].Nodes[n].Type].BlockGroup

\* C17: what the Execute of an Action node returns goes to no queue, also
\* when connections leave the Action node: its worker never holds output
\* to distribute, no distribution is made for it, and the step in which an
\* Action node executes puts nothing into any queue.
C17_ActionOutputDiscarded ==
    /\ [](/\ \A w \in workers :
               GroupOfNode(w.rf, w.node) = ActionGroup => w.pc = "select" /\ w.out = << >>
          /\ dist.rf # 0 => GroupOfNode(dist.rf, dist.node) # ActionGroup)
    /\ [][(exec'.rf # 0 /\ GroupOfNode(exec'.rf, exec'.node) = ActionGroup) =>
            \A k \in ChanKeys :
               \/ inputChan'[k[1]][k[2]] = inputChan[k[1]][k[2]]
               \/ /\ k = <<exec'.rf, exec'.node>>
                  /\ inputChan'[k[1]][k[2]] = Tail(inputChan[k[1]][k[2]])
         ]_vars

\* an Action node with an outgoing connection has executed a message
C17_Witness ==
    /\ exec.rf # 0
    /\ GroupOfNode(exec.rf, exec.node) = ActionGroup
    /\ exec.msg # NilMsg
    /\ ~exec.err
    /\ rt[exec.rf].Nodes[exec.node].OutputConnections # << >>

\* q is p with messages added behind
IsPrefix(p, q) == Len(p) <= Len(q) /\ SubSeq(q, 1, Len(p)) = p

\* C18: each queue is first-in first-out whoever feeds it: a queue changes
\* only by messages joining behind those that wait or by its node taking the
\* message at the front, which is the message its Execute gets; the message
\* taken waits nowhere afterwards, so Execute gets no message twice.
C18_QueueIsFifo ==
    [][/\ \A k \in ChanKeys :
            LET before == inputChan[k[1]][k[2]]
                after == inputChan'[k[1]][k[2]]
            IN  \/ k[2] \notin DOMAIN inputChan'[k[1]]
                \/ IsPrefix(before, after)
                \/ /\ before # << >>
                   /\ after = Tail(before)
                   /\ exec'.rf = k[1] /\ exec'.node = k[2]
                   /\ exec'.msg = Head(before)
       /\ exec'.msg # NilMsg =>
            /\ inputChan[exec'.rf][exec'.node] # << >>
            /\ exec'.msg = Head(inputChan[exec'.rf][exec'.node])
            /\ inputChan'[exec'.rf][exec'.node] = Tail(inputChan[exec'.rf][exec'.node])
            /\ \A k \in ChanKeys : k[2] \in DOMAIN inputChan'[k[1]] =>
                  \A i \in DOMAIN inputChan'[k[1]][k[2]] :
                     inputChan'[k[1]][k[2]][i].id # exec'.msg.id
      ]_vars

\* a node fed by two sources executes the older message while the message of
\* the other source waits behind it
C18_Witness ==
    /\ exec.rf # 0
    /\ exec.msg # NilMsg
    /\ inputChan[exec.rf][exec.node] # << >>
    /\ Head(inputChan[exec.rf][exec.node]).payload # exec.msg.payload

\* C20: every message in an input queue is a copy of its own: no identifier
\* is in two places of the queues (nor twice in one queue), and the message
\* an Execute was just given is in no queue, so no node can be handed it too.
C20_OneQueuePerMessage ==
    /\ \A k1 \in ChanKeys, k2 \in ChanKeys :
          \A i1 \in DOMAIN inputChan[k1[1]][k1[2]], i2 \in DOMAIN inputChan[k2[1]][k2[2]] :
             inputChan[k1[1]][k1[2]][i1].id = inputChan[k2[1]][k2[2]][i2].id =>
                k1 = k2 /\ i1 = i2
    /\ exec.msg # NilMsg =>
          \A k \in ChanKeys : \A i \in DOMAIN inputChan[k[1]][k[2]] :
             inputChan[k[1]][k[2]][i].id # exec.msg.id

\* a fan-out delivered one copy to each of two targets
C20_Witness ==
    /\ Len(dist.sent) = 2
    /\ dist.sent[1].target # dist.sent[2].target
    /\ dist.sent[1].msg.id # dist.sent[2].msg.id
    /\ dist.sent[1].msg.payload = dist.sent[2].msg.payload

\* C19: Clone gives a message with a new identifier, the payload of the
\* original and header and context entries equal to the original's, and
\* leaves the original as it was; the maps are the clone's own: setting a
\* header or a context value on any message, the clone or the original,
\* changes the headers and context of no other message.
C19_CloneIsIndependent ==
    /\ [][mlast'.op = "Clone" =>
            LET h == mlast'.on
                c == mlast'.new
            IN  /\ msgs[c].ID = 0
                /\ msgs'[c].ID # 0
                /\ \A g \in 1..MaxMsgs : g # c => msgs'[g] = msgs[g] /\ msgs'[g].ID # msgs'[c].ID
                /\ msgs'[c].Payload = msgs[h].Payload
                /\ HeadersOf(msgs', maps', c) = HeadersOf(msgs, maps, h)
                /\ ContextOf(msgs', maps', c) = ContextOf(msgs, maps, h)
                /\ HeadersOf(msgs', maps', h) = HeadersOf(msgs, maps, h)
                /\ ContextOf(msgs', maps', h) = ContextOf(msgs, maps, h)
         ]_vars
    /\ [][mlast'.op \in {"SetHeader", "SetContext"} =>
            \A g \in 1..MaxMsgs : (g # mlast'.on /\ msgs[g].ID # 0) =>
                /\ HeadersOf(msgs', maps', g) = HeadersOf(msgs, maps, g)
                /\ ContextOf(msgs', maps', g) = ContextOf(msgs, maps, g)
         ]_vars

\* a message that carries a header and a context value has been cloned
C19_Witness ==
    /\ mlast.op = "Clone"
    /\ HeadersOf(msgs, maps, mlast.on) # EmptyEntries
    /\ ContextOf(msgs, maps, mlast.on) # EmptyEntries
    /\ HeadersOf(msgs, maps, mlast.new) = HeadersOf(msgs, maps, mlast.on)
    /\ msgs[mlast.new].ID # msgs[mlast.on].ID

----------------------------------------------------------------------------
(* Properties of triggers, pipelines, the registry and shutdown            *)

\* the goroutines alive: RuntimeFlow, node and run of every worker
WorkerKeys(ws) == {<<w.rf, w.node, w.run>> : w \in ws}

\* C21: while a flow's entry is Running, a call of Engine.TriggerFlow leaves
\* the entry pointing at the same RuntimeFlow, leaves that RuntimeFlow
\* Running, and starts no worker: the set of workers stays as it was.
C21_TriggerKeepsRuntime ==
    [][\A f \in FlowIds :
          (flows[f] # 0 /\ rt[flows[f]].Running)
          => /\ flows'[f] = flows[f]
             /\ rt'[flows[f]].Running
             /\ WorkerKeys(workers') = WorkerKeys(workers)
      ]_vars

\* the payload a message has on its way into node n of the example flow:
\* held by the node before n or waiting in n's queue
StagePayload(n) ==
    CASE n = "a" -> Num(5)
      [] n = "m" -> Num(8)
      [] n = "d" -> Num(16)
      [] OTHER -> Num(0)

\* the node whose output goes to node n in the example flow
StageSource(n) ==
    CASE n = "a" -> "i"
      [] n = "m" -> "a"
      [] n = "d" -> "m"
      [] OTHER -> ""

\* C22: in Inject(5) -> Add(3) -> Multiply(2) -> Debug every firing of the
\* Input node makes one message, every later step passes that message on one
\* stage without making or losing one unless a full queue drops it, and the
\* Action node's Execute takes one message out with payload 16: so one
\* firing leads to one Execute of the Action node, with (5 + 3) * 2 = 16.
C22_PipelineYields16 ==
    /\ [](/\ \A k \in ChanKeys : \A j \in DOMAIN inputChan[k[1]][k[2]] :
                inputChan[k[1]][k[2]][j].payload = StagePayload(k[2])
          /\ \A w \in workers : \A j \in DOMAIN w.out :
                \E n \in {"a", "m", "d"} :
                   StageSource(n) = w.node /\ w.out[j].payload = StagePayload(n)
          /\ (exec.node = "d" /\ exec.rf # 0) =>
                ~exec.err /\ exec.msg.payload = Num(16))
    /\ [][LET n == Cardinality(LiveIDs)
              n2 == Cardinality(LiveIDs')
          IN  /\ exec'.rf # 0 =>
                   /\ ~exec'.err
                   /\ n2 = CASE exec'.node = "i" -> n + 1
                              [] exec'.node = "d" -> n - 1
                              [] OTHER -> n
              /\ (dist'.rf # 0 /\ dist'.dropped = << >>) =>
                   n2 = n /\ Len(dist'.sent) = 1
              /\ (exec'.rf = 0 /\ dist'.rf = 0) => n2 = n
         ]_vars

\* the Action node of the example flow has executed a message with payload 16
C22_Witness ==
    /\ exec.rf # 0
    /\ exec.node = "d"
    /\ ~exec.err
    /\ exec.msg.payload = Num(16)
    /\ DOMAIN rt[exec.rf].Nodes = {"i", "a", "m", "d"}

\* the block's Validate accepts the configuration of node n of RuntimeFlow r
ConfigurationValid(r, n) ==
    BlockValidateOk(rt[r].Nodes[n].Type, rt[r].Nodes[n].Properties)

\* C23: no RuntimeFlow that is Running has a node whose configuration the
\* block's Validate rejects, and no Execute is made with such a
\* configuration.
C23_RejectedConfigNeverRuns ==
    /\ \A r \in 1..MaxRF :
          rt[r].Running => \A n \in DOMAIN rt[r].Nodes : ConfigurationValid(r, n)
    /\ exec.rf # 0 => ConfigurationValid(exec.rf, exec.node)

\* C30: when the Execute of a Propagation node fails for a message, the
\* message is taken off the node's queue and is in no queue afterwards (no
\* retry), nothing is put into any queue and the worker holds no output
\* (nothing forwarded), the worker is back at its select, ready for the next
\* queued message, every other worker is as it was, and the RuntimeFlows,
\* the flow table and the process are untouched: the flow stays Running.
C30_FailedExecuteSkipsMessage ==
    [][(exec'.rf # 0 /\ exec'.err /\ GroupOfNode(exec'.rf, exec'.node) = PropagationGroup) =>
          LET r == exec'.rf
              n == exec'.node
          IN  /\ exec'.msg # NilMsg
              /\ exec'.msg = Head(inputChan[r][n])
              /\ inputChan' = [inputChan EXCEPT ![r][n] = Tail(@)]
              /\ exec'.msg.id \notin LiveIDs'
              /\ workers' = workers
              /\ \E w \in workers' :
                    w.rf = r /\ w.node = n /\ w.pc = "select" /\ w.out = << >>
              /\ dist' = NoDist
              /\ rt' = rt
              /\ rt'[r].Running
              /\ flows' = flows
              /\ ~crashed'
      ]_vars

\* a Propagation node's Execute has failed while another message waits in
\* its queue and the flow is Running
C30_Witness ==
    /\ exec.rf # 0
    /\ exec.err
    /\ GroupOfNode(exec.rf, exec.node) = PropagationGroup
    /\ inputChan[exec.rf][exec.node] # << >>
    /\ rt[exec.rf].Running

\* C24: Register never fails and makes the factory the entry of its declared
\* type, whether the type had an entry or not, leaving every other type's
\* entry as it was; no other call changes an entry; CreateBlock and
\* GetBlockInfoByType of a registered type answer with the entry: so they
\* use the factory registered last for the type.
C24_LastRegistrationWins ==
    /\ [][IF ret'.op = "Register"
           THEN /\ ret'.err = "ok"
                /\ ret'.flow = ret'.obj.Type
                /\ DOMAIN registry' = DOMAIN registry \cup {ret'.flow}
                /\ registry'[ret'.flow] = ret'.obj
                /\ \A t \in DOMAIN registry : t # ret'.flow => registry'[t] = registry[t]
           ELSE registry' = registry
         ]_vars
    /\ []((ret.op \in {"CreateBlock", "GetBlockInfoByType"} /\ ret.flow \in DOMAIN registry)
             => ret.err = "ok" /\ ret.obj = registry[ret.flow])

\* CreateBlock of a built-in type answers with a factory that was registered
\* over the built-in one
C24_Witness ==
    /\ ret.op = "CreateBlock"
    /\ ret.flow \in DOMAIN RegisterBuiltinBlocks
    /\ ret.err = "ok"
    /\ ret.obj # RegisterBuiltinBlocks[ret.flow]

\* C25: CreateBlock and GetBlockInfoByType succeed exactly when the type has
\* an entry and fail otherwise with "unknown block type" and the type asked
\* for; no step takes an entry away, so a registered type stays resolvable.
C25_LookupFailsOnlyForUnknown ==
    /\ [](ret.op \in {"CreateBlock", "GetBlockInfoByType"} =>
             /\ (ret.err = "ok") <=> (ret.flow \in DOMAIN registry)
             /\ (ret.err # "ok") =>
                   /\ ret.err = "unknown block type"
                   /\ ret.obj = [Message |-> "unknown block type", BlockType |-> ret.flow])
    /\ [][DOMAIN registry \subseteq DOMAIN registry']_vars

\* a type registered after startup resolves, after a lookup of another type
\* has failed
C25_Witness ==
    /\ ret.op = "GetBlockInfoByType"
    /\ ret.err = "ok"
    /\ ret.flow \notin DOMAIN RegisterBuiltinBlocks
    /\ "other" \notin DOMAIN registry

\* C26: the process is never terminated by a panic: no StopFlow closes a
\* stop channel that is closed already.
C26_ProcessNeverTerminates == ~crashed

\* C28: a message that was in a queue when a StopFlow returned is never
\* handed to an Execute: not while the flow is stopped and not after a later
\* Start of the flow id.
C28_QueuedAtStopNeverExecuted ==
    [][exec'.msg # NilMsg => exec'.msg.id \notin stale]_vars

\* C27: once the stop channel of a flow is closed every worker of the flow
\* exits at some time, whatever waits in its queue and however its queue is
\* refilled, and the StopFlow that closed the channel returns.
C27_WorkersExitAfterStop ==
    /\ \A n \in LoopNodes :
          (\E w \in workers : w.node = n /\ rt[w.rf].StopChan = "closed")
             ~> ~(\E w \in workers : w.node = n)
    /\ (\E k \in calls : k.pc = "stopWait")
          ~> (ret.op = "StopFlow" /\ ret.err = "ok" /\ workers = {})

\* the stop channel is closed while the worker of the node with the
\* self-loop is alive and holds output for its own queue, in which a message
\* waits already, and a message waits at the fan-in node
C27_Witness ==
    \E w \in workers :
       /\ rt[w.rf].StopChan = "closed"
       /\ w.node = "m"
       /\ w.pc = "dist"
       /\ inputChan[w.rf]["m"] # << >>
       /\ inputChan[w.rf]["d"] # << >>

\* C29: the execution context an Execute is given carries a cancellation
\* signal (a context.Context whose Done channel a block can wait on).
C29_ContextCarriesCancellation ==
    exec.rf # 0 => exec.Context # "nil"

----------------------------------------------------------------------------
(* Properties of the worker loops, of PrepareFlow's wiring and of the      *)
(* executor's lock                                                         *)

\* C31: when the Execute of an Input node fails on a trigger, nothing is
\* put into any queue and the worker holds no output, the worker is at its
\* select again, where the next trigger reaches it, every other worker is
\* as it was, and the RuntimeFlows, the flow table and the process are
\* untouched: the flow stays Running.
C31_FailedTriggerSkipped ==
    [][(exec'.rf # 0 /\ exec'.err /\ GroupOfNode(exec'.rf, exec'.node) = InputGroup) =>
          /\ exec'.msg = NilMsg
          /\ inputChan' = inputChan
          /\ workers' = workers
          /\ \E w \in workers' :
                w.rf = exec'.rf /\ w.node = exec'.node /\ w.pc = "select" /\ w.out = << >>
          /\ dist' = NoDist
          /\ rt' = rt
          /\ rt'[exec'.rf].Running
          /\ flows' = flows
          /\ ~crashed'
      ]_vars

\* the Execute of the Input node of a Running flow has failed, and its
\* worker and the workers of the two other nodes are alive
C31_Witness ==
    /\ exec.rf # 0
    /\ exec.err
    /\ GroupOfNode(exec.rf, exec.node) = InputGroup
    /\ rt[exec.rf].Running
    /\ Cardinality({w \in workers : w.rf = exec.rf /\ w.pc = "select"}) = 3

\* C32: every Execute is handed a state store in which the block can keep a
\* value for its later invocations: storing under a key does not fail, and
\* so a stored value can be found again.
C32_StateStoreUsable ==
    exec.rf # 0 => ~SetStatePanics(exec.State)

\* C33: the input message of every Execute of a Propagation or Action node
\* is a message, never nil, and no queue ever holds nil; this covers the
\* time between the close of the stop channel and the exit of the workers.
C33_InputNeverNil ==
    /\ (exec.rf # 0 /\ GroupOfNode(exec.rf, exec.node) \in {PropagationGroup, ActionGroup})
          => exec.msg # NilMsg
    /\ NilMsg \notin QueuedMsgs

\* a Propagation node has taken a message from its queue and executed on
\* it after the stop channel of its flow was closed
C33_Witness ==
    /\ exec.rf # 0
    /\ GroupOfNode(exec.rf, exec.node) = PropagationGroup
    /\ exec.msg # NilMsg
    /\ rt[exec.rf].StopChan = "closed"

\* C34: a worker that holds output to forward can always make its
\* forwarding step, whatever the queues of its targets hold: no worker
\* waits for room in a queue, and so no workers wait for each other.
C34_ForwardingNeverBlocks ==
    \A w \in workers : w.pc = "dist" => ENABLED WorkerDistribute(w)

\* the two workers of the cycle both hold output for the other one's queue
\* and both queues are full, as is the queue of the self-loop
C34_Witness ==
    \E wa \in workers, wb \in workers :
       /\ wa.rf = wb.rf
       /\ wa.node = "a" /\ wa.pc = "dist"
       /\ wb.node = "b" /\ wb.pc = "dist"
       /\ Len(inputChan[wa.rf]["a"]) = ChanCap
       /\ Len(inputChan[wa.rf]["b"]) = ChanCap

\* the k-th connection of the definition is the j-th one that leaves node n
JthFrom(conns, n, j, k) ==
    /\ conns[k].Source = n
    /\ Cardinality({i \in 1..k : conns[i].Source = n}) = j

\* the outbound lists of the runtime nodes are those of the definition
WiredAsDeclared(nodes, conns) ==
    \A n \in DOMAIN nodes :
       LET out == nodes[n].OutputConnections
       IN  /\ Len(out) = Cardinality({k \in 1..Len(conns) : conns[k].Source = n})
           /\ \A j \in 1..Len(out) :
                 \E k \in 1..Len(conns) : JthFrom(conns, n, j, k) /\ out[j] = conns[k].Target

\* C35: the outbound list of every runtime node of a RuntimeFlow that
\* PrepareFlow returned, or that PrepareAndStartFlow registered, has one
\* entry for each connection of the definition whose source is the node,
\* the entries are the targets of these connections, and they stand in the
\* order in which the connections were declared.
C35_OutboundListAsDeclared ==
    /\ (ret.op = "PrepareFlow" /\ ret.err = "ok")
          => WiredAsDeclared(ret.obj.Nodes, vflow.Connections)
    /\ \A r \in 1..MaxRF :
          rt[r] # NoRF => WiredAsDeclared(rt[r].Nodes, vflow.Connections)

\* PrepareFlow has returned a RuntimeFlow in which a node has three
\* outbound entries, the first and the last for the same target
C35_Witness ==
    /\ ret.op = "PrepareFlow"
    /\ ret.err = "ok"
    /\ \E n \in DOMAIN ret.obj.Nodes :
          LET out == ret.obj.Nodes[n].OutputConnections
          IN  Len(out) = 3 /\ out[1] = out[3] /\ out[1] # out[2]

\* the connections of the definition that leave node n on output port p
WiresFrom(n, p) ==
    {k \in 1..Len(vflow.Connections) :
        vflow.Connections[k].Source = n /\ vflow.Connections[k].SourcePort = p}

\* C36: when a worker distributes the one message its Execute returned, the
\* message is offered (sent or dropped at a full queue) once for each
\* connection that leaves one output port of the node, the port the message
\* was produced on, and to the targets of these connections only.
C36_OfferedOnOnePortOnly ==
    [][\A w \in workers :
          (Distributing(w) /\ Len(w.out) = 1) =>
             \E p \in 0..1 :
                /\ Len(dist'.sent) + Len(dist'.dropped) = Cardinality(WiresFrom(w.node, p))
                /\ \A i \in DOMAIN dist'.sent :
                      \E k \in WiresFrom(w.node, p) :
                         vflow.Connections[k].Target = dist'.sent[i].target
                /\ \A i \in DOMAIN dist'.dropped :
                      \E k \in WiresFrom(w.node, p) :
                         vflow.Connections[k].Target = dist'.dropped[i]
      ]_vars

\* C37: while a Register is in progress on the registry no other Register
\* and no CreateBlock or GetBlockInfoByType is in progress on it.
C37_RegisterRunsAlone ==
    \A k \in calls : k.pc = "Register" => calls = {k}

\* the StartFlow calls that have taken the lock and not returned yet
StartsUnderLock == {k \in calls : k.pc \in {"startCheck", "startSpawn"}}

\* C38: of the callers that call StartFlow for a flow id at the same time
\* only one at a time is past the Lock; a caller that got past the Running
\* check finds the flow stopped and without workers until it has spawned
\* them; a StartFlow that succeeds turns a stopped RuntimeFlow into a
\* Running one with exactly one worker for each node; and every StartFlow
\* that comes to a Running flow fails with "already running" and creates no
\* worker.
C38_OneStartWins ==
    /\ [](/\ Cardinality(StartsUnderLock) <= 1
          /\ \A k \in calls :
                k.pc = "startSpawn" => (~rt[k.rf].Running /\ WorkersOf(k.rf) = {}))
    /\ [][\A f \in FlowIds :
            IF ret'.op = "StartFlow" /\ ret'.flow = f /\ ret'.err = "ok"
            THEN /\ flows[f] # 0
                 /\ ~rt[flows[f]].Running
                 /\ rt'[flows[f]].Running
                 /\ rt'[flows[f]].runs = rt[flows[f]].runs + 1
                 /\ \A n \in DOMAIN rt[flows[f]].Nodes :
                       Cardinality({w \in workers' : w.rf = flows[f] /\ w.node = n}) = 1
            ELSE IF /\ ret'.op = "StartFlow"
                    /\ ret'.flow = f
                    /\ flows[f] # 0
                    /\ rt[flows[f]].Running
            THEN ret'.err = "already running" /\ workers' = workers /\ rt' = rt
            ELSE TRUE
      ]_vars

\* a StartFlow has just succeeded for a flow id while another caller's
\* StartFlow for the same flow id waits for the lock
C38_Witness ==
    /\ ret.op = "StartFlow"
    /\ ret.err = "ok"
    /\ \E k \in calls : k.pc = "startLock" /\ k.flow = ret.flow
    /\ Cardinality(WorkersOf(flows[ret.flow])) = 2

\* C39: every StartFlow past its Lock and every StopFlow that waits holds
\* the executor's lock; while a StopFlow waits for the workers no StartFlow,
\* no further StopFlow and no GetFlowStatus returns, for any flow id, and
\* the StartFlow that ends a PrepareAndStartFlow does not either; the
\* StopFlow that returns is the waiting one, after the last worker of its
\* flow is gone; and GetFlowStatus returns only when no Start or Stop is
\* under way, with the running flag the table's entry has then.
C39_LockHeldThroughout ==
    /\ [](\A k \in calls :
             k.pc \in {"startCheck", "startSpawn", "stopWait"}
                => (mutex = "held" /\ \A j \in calls \ {k} : j.pc \in {"startLock", "register", "start"}))
    /\ [][(\E k \in calls : k.pc = "stopWait") =>
            /\ ret'.op \notin {"StartFlow", "GetFlowStatus"}
            /\ ret'.op = "PrepareAndStartFlow" => ret'.err \in PrepareErrors
            /\ ret'.op = "StopFlow" =>
                  \E k \in calls \ calls' :
                     /\ k.pc = "stopWait"
                     /\ k.flow = ret'.flow
                     /\ ret'.err = "ok"
                     /\ WorkersOf(k.rf) = {}
      ]_vars
    /\ [][ret'.op = "GetFlowStatus" =>
            /\ mutex = "free"
            /\ \A k \in calls : k.pc \notin {"startCheck", "startSpawn", "stopWait"}
            /\ (ret'.err = "ok") <=> (flows[ret'.flow] # 0)
            /\ ret'.err = "ok" => ret'.val = rt[flows[ret'.flow]].Running
      ]_vars

\* a StopFlow waits for workers that are still alive while a caller's
\* StartFlow waits for the lock
C39_Witness ==
    \E k \in calls, j \in calls :
       /\ k.pc = "stopWait"
       /\ WorkersOf(k.rf) # {}
       /\ j.pc = "startLock"

\* every outbound entry of the RuntimeFlow names a node of it
OutboundWithinFlow(r) ==
    \A n \in DOMAIN rt[r].Nodes :
       \A i \in DOMAIN rt[r].Nodes[n].OutputConnections :
          rt[r].Nodes[n].OutputConnections[i] \in DOMAIN rt[r].Nodes

\* C40: a PrepareAndStartFlow that fails in validation or preparation
\* leaves the flow table, every RuntimeFlow with its running flag and stop
\* channel, the workers, the queues, the calls in progress and the lock as
\* they were; and an entry of the flow table is only ever replaced by a
\* RuntimeFlow of a definition whose connections passed validation.
C40_FailedSubmitKeepsEntry ==
    /\ [][(ret'.op = "PrepareAndStartFlow" /\ ret'.err \in PrepareErrors) =>
            UNCHANGED <<flows, rt, workers, inputChan, calls, mutex, crashed, up>>
      ]_vars
    /\ [][\A f \in FlowIds :
            flows'[f] # flows[f] => (flows'[f] # 0 /\ OutboundWithinFlow(flows'[f]))
      ]_vars

\* the edited definition of a Running flow was submitted and rejected: the
\* flow id has its entry, Running, with its two workers and an open stop
\* channel
C40_Witness ==
    /\ ret.op = "PrepareAndStartFlow"
    /\ ret.err = "flow validation failed"
    /\ ret.flow = "f1"
    /\ flows["f1"] # 0
    /\ rt[flows["f1"]].Running
    /\ rt[flows["f1"]].StopChan = "open"
    /\ Cardinality(WorkersOf(flows["f1"])) = 2
====
